---- MODULE Spec2Model ----
(***************************************************************************)
(* Verification model of the PAI multi-device sync pack:                   *)
(*   Hooks/SessionStart.ts  (pull, pending-push drain, registry update)    *)
(*   Hooks/SessionEnd.ts    (redaction, commit, push, pending-push queue)  *)
(*   Hooks/PrePush.ts       (pattern scan of the derived artifacts)        *)
(*   Scripts/redact-pii.ts  (marker redaction, quick version)              *)
(*                                                                         *)
(* Text is a sequence of one-character strings; the regular expressions    *)
(* of the source are flat sequences of quantified character classes and    *)
(* are interpreted by MatchAt below.                                       *)
(***************************************************************************)
EXTENDS Integers, Sequences, FiniteSets, TLC

(***************************************************************************)
(* Characters and character classes                                        *)
(***************************************************************************)
Lower == {"a","b","c","d","e","f","g","h","i","j","k","l","m",
          "n","o","p","q","r","s","t","u","v","w","x","y","z"}

Upper == {"A","B","C","D","E","F","G","H","I","J","K","L","M",
          "N","O","P","Q","R","S","T","U","V","W","X","Y","Z"}

Digit == {"0","1","2","3","4","5","6","7","8","9"}

\* \w of the regular expressions
WordChar == Lower \cup Upper \cup Digit \cup {"_"}

\* \s of the regular expressions (the characters of it that texts here use)
SpaceChar == {" ", "\n", "\t"}

Min(a, b) == IF a < b THEN a ELSE b

Max(a, b) == IF a < b THEN b ELSE a

\* String.prototype.toUpperCase on one character
UpperOf(c) ==
  CASE c = "a" -> "A" [] c = "b" -> "B" [] c = "c" -> "C" [] c = "d" -> "D"
    [] c = "e" -> "E" [] c = "f" -> "F" [] c = "g" -> "G" [] c = "h" -> "H"
    [] c = "i" -> "I" [] c = "j" -> "J" [] c = "k" -> "K" [] c = "l" -> "L"
    [] c = "m" -> "M" [] c = "n" -> "N" [] c = "o" -> "O" [] c = "p" -> "P"
    [] c = "q" -> "Q" [] c = "r" -> "R" [] c = "s" -> "S" [] c = "t" -> "T"
    [] c = "u" -> "U" [] c = "v" -> "V" [] c = "w" -> "W" [] c = "x" -> "X"
    [] c = "y" -> "Y" [] c = "z" -> "Z" [] OTHER -> c

ToUpperCase(s) == [i \in 1..Len(s) |-> UpperOf(s[i])]

\* String.prototype.includes
Includes(s, sub) ==
  \E i \in 1..(Len(s) - Len(sub) + 1) :
     \A j \in 1..Len(sub) : s[i + j - 1] = sub[j]

\* String.prototype.endsWith
EndsWith(s, suf) ==
  /\ Len(suf) <= Len(s)
  /\ \A j \in 1..Len(suf) : s[Len(s) - Len(suf) + j] = suf[j]

(***************************************************************************)
(* Regular expressions: a sequence of items.  An item is a character class *)
(* with a repetition count min..max (inf: no upper limit), or the          *)
(* assertion \b.                                                           *)
(***************************************************************************)
Rep(cls, lo, hi) == [k |-> "cls", cls |-> cls, min |-> lo, max |-> hi, inf |-> FALSE]

AtLeast(cls, lo) == [k |-> "cls", cls |-> cls, min |-> lo, max |-> lo, inf |-> TRUE]

One(cls) == Rep(cls, 1, 1)

Opt(cls) == Rep(cls, 0, 1)

WordBoundary == [k |-> "wb", cls |-> {}, min |-> 0, max |-> 0, inf |-> FALSE]

\* a literal string as a regular expression
Lit(s) == [i \in 1..Len(s) |-> One({s[i]})]

\* \b holds at position i (between s[i-1] and s[i])
IsWordBoundary(s, i) ==
  LET before == i > 1 /\ s[i - 1] \in WordChar
      after  == i <= Len(s) /\ s[i] \in WordChar
  IN  before # after

\* items k.. of re match a substring of s that starts at position i, its item k
\* having taken the n characters before position i already
RECURSIVE MatchAt(_, _, _, _), MatchRep(_, _, _, _, _)
MatchRep(re, k, s, i, n) ==
  LET it == re[k] IN
  \/ n >= it.min /\ MatchAt(re, k + 1, s, i)
  \/ /\ it.inf \/ n < it.max
     /\ i <= Len(s)
     /\ s[i] \in it.cls
     /\ MatchRep(re, k, s, i + 1, n + 1)

MatchAt(re, k, s, i) ==
  IF k > Len(re) THEN TRUE
  ELSE IF re[k].k = "wb" THEN IsWordBoundary(s, i) /\ MatchAt(re, k + 1, s, i)
  ELSE MatchRep(re, k, s, i, 0)

\* String.prototype.match(re) is non-null
HasMatch(re, s) == \E i \in 1..(Len(s) + 1) : MatchAt(re, 1, s, i)

(***************************************************************************)
(* Paths.  A path is the character sequence relative to MEMORY_DIR.        *)
(***************************************************************************)
\* homedir(): the home directory of the account that runs the hooks
HomeDir == <<"/","h","o","m","e","/","u">>

MEMORY_DIR ==
  HomeDir \o <<"/",".","c","l","a","u","d","e","-","m","e","m","o","r","y","-","c","l","o","u","d">>

\* path.join(MEMORY_DIR, rel)
FullPath(rel) == MEMORY_DIR \o <<"/">> \o rel

MemoryPath == <<"g","l","o","b","a","l","-","m","e","m","o","r","y",".","m","d">>

SubDir == <<"p","r","o","j",".","g","i","t">>

SubArtifactPath == SubDir \o <<"/","n","o","t","e","s",".","s","a","f","e",".","m","d">>

DotMd == <<".","m","d">>

DotSafeMd == <<".","s","a","f","e",".","m","d">>

DotQuickMd == <<".","q","u","i","c","k",".","m","d">>

\* filePath.replace(/\.md$/, suffix): a path that does not end in .md is unchanged
ReplaceMdSuffix(path, suffix) ==
  IF EndsWith(path, DotMd)
  THEN SubSeq(path, 1, Len(path) - Len(DotMd)) \o suffix
  ELSE path

SafePath == ReplaceMdSuffix(MemoryPath, DotSafeMd)

QuickPath == ReplaceMdSuffix(MemoryPath, DotQuickMd)

\* the files of MEMORY_DIR that the model follows
Paths == {MemoryPath, SafePath, QuickPath, SubArtifactPath}

\* the directories of MEMORY_DIR that hold them (<< >> is MEMORY_DIR itself)
Dirs == {<< >>, SubDir}

\* the directory part of a relative path
RECURSIVE DirOf(_)
DirOf(path) ==
  IF path = << >> THEN << >>
  ELSE IF path[Len(path)] = "/" THEN SubSeq(path, 1, Len(path) - 1)
  ELSE DirOf(SubSeq(path, 1, Len(path) - 1))

NoFile == [exists |-> FALSE, content |-> << >>]

File(text) == [exists |-> TRUE, content |-> text]

VARIABLES
  configFile,    \* .config.json: [state, sync_enabled, on_session_start, on_session_end, redact_pii, device_name]
  fs,            \* Paths -> [exists, content]: memory files and derived artifacts
  ioFail,        \* the paths on which readFileSync / writeFileSync throw
  dirFail,       \* the directories on which readdirSync throws
  gate           \* the last run of the PrePush hook: [ran, stdinOk, exit, report]

(***************************************************************************)
(* Hooks/PrePush.ts                                                        *)
(***************************************************************************)
SepChar == SpaceChar \cup {"-"}

AlphaNum == Lower \cup Upper \cup Digit

Base64Url == AlphaNum \cup {"_", "-"}

\* the keys of PII_PATTERNS, in the order of Object.entries
PiiTypes == <<"email", "phone", "apiKey", "awsKey", "jwt", "githubToken", "creditCard", "ssn">>

\* the characters of a key of PII_PATTERNS
TypeChars(type) ==
  CASE type = "email"       -> <<"e","m","a","i","l">>
    [] type = "phone"       -> <<"p","h","o","n","e">>
    [] type = "apiKey"      -> <<"a","p","i","K","e","y">>
    [] type = "awsKey"      -> <<"a","w","s","K","e","y">>
    [] type = "jwt"         -> <<"j","w","t">>
    [] type = "githubToken" -> <<"g","i","t","h","u","b","T","o","k","e","n">>
    [] type = "creditCard"  -> <<"c","r","e","d","i","t","C","a","r","d">>
    [] type = "ssn"         -> <<"s","s","n">>

\* PII_PATTERNS[type].regex
PII_PATTERNS(type) ==
  CASE type = "email" ->
         \* /[a-z0-9._%+-]+@[a-z0-9.-]+\.[a-z]{2,}/gi
         << AtLeast(AlphaNum \cup {".", "_", "%", "+", "-"}, 1),
            One({"@"}),
            AtLeast(AlphaNum \cup {".", "-"}, 1),
            One({"."}),
            AtLeast(Lower \cup Upper, 2) >>
    [] type = "phone" ->
         \* /\+?\d{1,3}[\s-]?\(?\d{1,4}\)?[\s-]?\d{1,4}[\s-]?\d{1,9}/g
         << Opt({"+"}), Rep(Digit, 1, 3), Opt(SepChar), Opt({"("}),
            Rep(Digit, 1, 4), Opt({")"}), Opt(SepChar),
            Rep(Digit, 1, 4), Opt(SepChar), Rep(Digit, 1, 9) >>
    [] type = "apiKey" ->
         \* /sk-[a-zA-Z0-9]{20,}/g
         Lit(<<"s","k","-">>) \o << AtLeast(AlphaNum, 20) >>
    [] type = "awsKey" ->
         \* /AKIA[0-9A-Z]{16}/g
         Lit(<<"A","K","I","A">>) \o << Rep(Digit \cup Upper, 16, 16) >>
    [] type = "jwt" ->
         \* /eyJ[a-zA-Z0-9_-]{5,}\.eyJ[a-zA-Z0-9_-]{5,}\.[a-zA-Z0-9_-]{5,}/g
         Lit(<<"e","y","J">>) \o << AtLeast(Base64Url, 5), One({"."}) >>
           \o Lit(<<"e","y","J">>) \o << AtLeast(Base64Url, 5), One({"."}),
                                        AtLeast(Base64Url, 5) >>
    [] type = "githubToken" ->
         \* /ghp_[a-zA-Z0-9]{36}/g
         Lit(<<"g","h","p","_">>) \o << Rep(AlphaNum, 36, 36) >>
    [] type = "creditCard" ->
         \* /\b\d{4}[\s-]?\d{4}[\s-]?\d{4}[\s-]?\d{4}\b/g
         << WordBoundary, Rep(Digit, 4, 4), Opt(SepChar), Rep(Digit, 4, 4), Opt(SepChar),
            Rep(Digit, 4, 4), Opt(SepChar), Rep(Digit, 4, 4), WordBoundary >>
    [] type = "ssn" ->
         \* /\b\d{3}-\d{2}-\d{4}\b/g
         << WordBoundary, Rep(Digit, 3, 3), One({"-"}), Rep(Digit, 2, 2), One({"-"}),
            Rep(Digit, 4, 4), WordBoundary >>

\* `[PII:${type.toUpperCase()}]`
PiiToken(type) == <<"[","P","I","I",":">> \o ToUpperCase(TypeChars(type)) \o <<"]">>

\* `[REDACTED:${type.toUpperCase()}]`
RedactedToken(type) ==
  <<"[","R","E","D","A","C","T","E","D",":">> \o ToUpperCase(TypeChars(type)) \o <<"]">>

\* the extensions that checkFileForPII skips (case-insensitive)
BinaryExts ==
  { <<"j","p","g">>, <<"j","p","e","g">>, <<"p","n","g">>, <<"g","i","f">>,
    <<"p","d","f">>, <<"z","i","p">>, <<"t","a","r">>, <<"g","z">>, <<"e","x","e">>,
    <<"d","l","l">>, <<"s","o">>, <<"d","y","l","i","b">> }

IsBinaryPath(filePath) ==
  \E e \in BinaryExts :
     \E suf \in {<<".">> \o e, <<".">> \o ToUpperCase(e)} : EndsWith(filePath, suf)

\* isMarked that looks for the [PII:TYPE] token alone
FindingsUnlessPiiMarked(content) ==
  { PiiTypes[n] : n \in { m \in 1..Len(PiiTypes) :
       LET type == PiiTypes[m]
       IN  HasMatch(PII_PATTERNS(type), content) /\ ~Includes(content, PiiToken(type)) } }

\* the types that one file content is flagged for (the loop of checkFileForPII)
FindingsIn(content) ==
  { PiiTypes[n] : n \in { m \in 1..Len(PiiTypes) :
       LET type == PiiTypes[m]
           isMarked == Includes(content, PiiToken(type))
                         \/ Includes(content, RedactedToken(type))
       IN  HasMatch(PII_PATTERNS(type), content) /\ ~isMarked } }

NoFindings == [hasPII |-> FALSE, findings |-> {}]

\* checkFileForPII(filePath), filePath relative to MEMORY_DIR
checkFileForPII(rel) ==
  LET filePath == FullPath(rel) IN
  IF IsBinaryPath(filePath) THEN NoFindings
  ELSE IF Includes(filePath, <<".","g","i","t","/">>) THEN NoFindings
  ELSE IF rel \in ioFail \/ ~fs[rel].exists THEN NoFindings
  ELSE LET findings == FindingsIn(fs[rel].content)
       IN  [hasPII |-> findings # {}, findings |-> findings]

\* a directory of the path is named .git (walk does not descend into it)
UnderDotGit(rel) == Includes(<<"/">> \o rel, <<"/",".","g","i","t","/">>)

\* walk(dir) gave up on the directory of the path, or on MEMORY_DIR
WalkFails(rel) == << >> \in dirFail \/ DirOf(rel) \in dirFail

\* getFilesToCheck(): the .safe.md and .quick.md files that walk reaches
getFilesToCheck ==
  { rel \in Paths :
      /\ fs[rel].exists
      /\ ~UnderDotGit(rel)
      /\ ~WalkFails(rel)
      /\ (EndsWith(rel, DotSafeMd) \/ EndsWith(rel, DotQuickMd)) }

(***************************************************************************)
(* Scripts/redact-pii.ts                                                   *)
(***************************************************************************)
PiiOpen == <<"[","P","I","I",":">>

PiiClose == <<"[","/","P","I","I",":">>

\* s has sub at position i
HasAt(s, i, sub) ==
  /\ i + Len(sub) - 1 <= Len(s)
  /\ \A j \in 1..Len(sub) : s[i + j - 1] = sub[j]

\* the longest run of \w characters of s that starts at position i
RECURSIVE WordRun(_, _)
WordRun(s, i) ==
  IF i <= Len(s) /\ s[i] \in WordChar THEN <<s[i]>> \o WordRun(s, i + 1) ELSE << >>

\* OpenTypeAt under the flag i: [pii:TYPE] opens a span too
OpenTypeAtAnyCase(s, i) ==
  IF HasAt(ToUpperCase(s), i, PiiOpen)
  THEN LET type == WordRun(s, i + Len(PiiOpen))
       IN  IF type # << >> /\ HasAt(s, i + Len(PiiOpen) + Len(type), <<"]">>)
           THEN type ELSE << >>
  ELSE << >>

\* the TYPE of an opening marker [PII:TYPE] at position i, << >> if there is none
OpenTypeAt(s, i) ==
  IF HasAt(s, i, PiiOpen)
  THEN LET type == WordRun(s, i + Len(PiiOpen))
       IN  IF type # << >> /\ HasAt(s, i + Len(PiiOpen) + Len(type), <<"]">>)
           THEN type ELSE << >>
  ELSE << >>

OpenMarker(type) == PiiOpen \o type \o <<"]">>

CloseMarker(type) == PiiClose \o type \o <<"]">>

\* a replacement that keeps the two markers and drops the value
RedactedAsSpan(type) == PiiOpen \o type \o <<"]">> \o PiiClose \o type \o <<"]">>

\* `[REDACTED:${type}]`
Redacted(type) == <<"[","R","E","D","A","C","T","E","D",":">> \o type \o <<"]">>

\* the positions at or after i where the closing marker of type starts
ClosesFrom(s, i, type) == { j \in i..Len(s) : HasAt(s, j, CloseMarker(type)) }

SetMin(S) == CHOOSE x \in S : \A y \in S : x <= y

\* a replace that also deletes an opening marker that is never closed
RECURSIVE RedactDropsUnterminated(_, _)
RedactDropsUnterminated(s, i) ==
  IF i > Len(s) THEN << >>
  ELSE LET type   == OpenTypeAt(s, i)
           closes == IF type = << >> THEN {}
                     ELSE ClosesFrom(s, i + Len(OpenMarker(type)), type)
       IN  IF closes # {}
           THEN Redacted(type)
                  \o RedactDropsUnterminated(s, SetMin(closes) + Len(CloseMarker(type)))
           ELSE IF type # << >>
           THEN RedactDropsUnterminated(s, i + Len(OpenMarker(type)))
           ELSE <<s[i]>> \o RedactDropsUnterminated(s, i + 1)

\* content.replace(PII_MARKER_PATTERN, ...) from position i on:
\* /\[PII:(\w+)\](.*?)\[\/PII:\1\]/gs, leftmost match, shortest value
RECURSIVE RedactFrom(_, _)
RedactFrom(s, i) ==
  IF i > Len(s) THEN << >>
  ELSE LET type   == OpenTypeAt(s, i)
           closes == IF type = << >> THEN {}
                     ELSE ClosesFrom(s, i + Len(OpenMarker(type)), type)
       IN  IF closes # {}
           THEN Redacted(type) \o RedactFrom(s, SetMin(closes) + Len(CloseMarker(type)))
           ELSE <<s[i]>> \o RedactFrom(s, i + 1)

\* redactPII(content)
redactPII(content) == RedactFrom(content, 1)

\* the positions of s that content.replace(PII_MARKER_PATTERN, ...) copies to
\* its result from position i on: those outside every match
RECURSIVE SurvivorsFrom(_, _)
SurvivorsFrom(s, i) ==
  IF i > Len(s) THEN {}
  ELSE LET type   == OpenTypeAt(s, i)
           closes == IF type = << >> THEN {}
                     ELSE ClosesFrom(s, i + Len(OpenMarker(type)), type)
       IN  IF closes # {}
           THEN SurvivorsFrom(s, SetMin(closes) + Len(CloseMarker(type)))
           ELSE {i} \cup SurvivorsFrom(s, i + 1)

\* content.split('\n')
RECURSIVE SplitLines(_)
SplitLines(s) ==
  IF \A i \in 1..Len(s) : s[i] # "\n" THEN <<s>>
  ELSE LET n == SetMin({ i \in 1..Len(s) : s[i] = "\n" })
       IN  <<SubSeq(s, 1, n - 1)>> \o SplitLines(SubSeq(s, n + 1, Len(s)))

\* lines.join('\n')
RECURSIVE JoinLines(_)
JoinLines(lines) ==
  IF lines = << >> THEN << >>
  ELSE IF Len(lines) = 1 THEN lines[1]
  ELSE lines[1] \o <<"\n">> \o JoinLines(Tail(lines))

\* line.trim() === ''
IsBlank(line) == \A i \in 1..Len(line) : line[i] \in SpaceChar

\* the number of characters c at the start of s
RECURSIVE LeadingRun(_, _)
LeadingRun(s, cls) ==
  IF s # << >> /\ s[1] \in cls THEN 1 + LeadingRun(Tail(s), cls) ELSE 0

NoHeader == [matched |-> FALSE, level |-> 0, title |-> << >>]

\* line.match(/^(#{1,3})\s+(.+)$/): level is the length of group 1, title is group 2
headerMatch(line) ==
  LET hashes == LeadingRun(line, {"#"})
      rest   == SubSeq(line, hashes + 1, Len(line))
      spaces == LeadingRun(rest, SpaceChar)
      after  == SubSeq(rest, spaces + 1, Len(rest))
  IN  IF hashes < 1 \/ hashes > 3 \/ spaces < 1 THEN NoHeader
      ELSE IF after # << >> THEN [matched |-> TRUE, level |-> hashes, title |-> after]
      ELSE IF spaces >= 2 /\ rest[spaces] # "\n"
           THEN [matched |-> TRUE, level |-> hashes, title |-> <<rest[spaces]>>]
      ELSE NoHeader

\* includeSections
includeSections ==
  { <<"#"," ","P","A","I"," ","G","l","o","b","a","l"," ","M","e","m","o","r","y">>,
    <<"#","#"," ","U","s","e","r"," ","P","r","o","f","i","l","e">>,
    <<"#","#"," ","C","o","l","l","a","b","o","r","a","t","i","o","n"," ",
      "P","a","t","t","e","r","n","s">>,
    <<"#","#"," ","A","c","t","i","v","e"," ","P","r","o","j","e","c","t","s">>,
    <<"#","#"," ","R","e","c","e","n","t"," ","C","o","n","t","e","x","t">> }

\* '#'.repeat(level)
Hashes(level) == [i \in 1..level |-> "#"]

\* a heading that ends the included section only when it is above its level
ClosesOnlyAbove(level, headerLevel) == level < headerLevel

\* level <= headerLevel: a heading at the same or a higher level
ClosesSection(level, headerLevel) == level <= headerLevel

\* the loop of generateQuickVersion over lines k.., with its three loop variables
RECURSIVE QuickLoop(_, _, _, _, _)
QuickLoop(lines, k, quickLines, inIncludedSection, headerLevel) ==
  IF k > Len(lines) THEN quickLines
  ELSE LET line == lines[k]
           h    == headerMatch(line)
           fullHeader == Hashes(h.level) \o <<" ">> \o h.title
       IN  IF h.matched
           THEN IF fullHeader \in includeSections
                THEN QuickLoop(lines, k + 1, Append(quickLines, line), TRUE, h.level)
                ELSE IF ClosesSection(h.level, headerLevel)
                THEN QuickLoop(lines, k + 1, quickLines, FALSE, headerLevel)
                ELSE QuickLoop(lines, k + 1, quickLines, inIncludedSection, headerLevel)
           ELSE IF inIncludedSection
                   /\ (~IsBlank(line)
                         \/ (quickLines # << >> /\ ~IsBlank(quickLines[Len(quickLines)])))
                THEN QuickLoop(lines, k + 1, Append(quickLines, line),
                               inIncludedSection, headerLevel)
                ELSE QuickLoop(lines, k + 1, quickLines, inIncludedSection, headerLevel)

DigitChar(d) ==
  CASE d = 0 -> "0" [] d = 1 -> "1" [] d = 2 -> "2" [] d = 3 -> "3" [] d = 4 -> "4"
    [] d = 5 -> "5" [] d = 6 -> "6" [] d = 7 -> "7" [] d = 8 -> "8" [] d = 9 -> "9"

\* String(n) of an integer
RECURSIVE Decimal(_)
Decimal(n) ==
  IF n < 0 THEN <<"-">> \o Decimal(0 - n)
  ELSE IF n < 10 THEN <<DigitChar(n)>>
  ELSE Decimal(n \div 10) \o <<DigitChar(n % 10)>>

\* new Date(t).toISOString(), t the clock of the model in seconds
toISOString(t) ==
  <<"2","0","2","6","-","0","1","-","1","0","T","1","5",":","3","0",":">>
    \o <<DigitChar((t \div 10) % 10), DigitChar(t % 10)>>
    \o <<".","0","0","0","Z">>

\* Math.round((1 - quick / total) * 100)
ReductionPercent(quick, total) == (200 * (total - quick) + total) \div (2 * total)

\* generateQuickVersion(content) at clock t
generateQuickVersion(content, t) ==
  LET lines == SplitLines(content)
      kept  == QuickLoop(lines, 1, << >>, FALSE, 0)
      meta  == kept \o << << >>, <<"-","-","-">>, << >>,
                 <<"*","*","Q","u","i","c","k"," ","v","e","r","s","i","o","n"," ",
                   "g","e","n","e","r","a","t","e","d","*","*",":"," ">> \o toISOString(t) >>
      last  == <<"*","*","T","o","k","e","n"," ","r","e","d","u","c","t","i","o","n",
                 "*","*",":"," ","~">>
                 \o Decimal(ReductionPercent(Len(meta), Len(lines))) \o <<"%">>
  IN  JoinLines(Append(meta, last))

(***************************************************************************)
(* Persistent state of one device, and the two session hooks               *)
(***************************************************************************)
PENDING_PUSHES_FILE ==
  <<"s","y","n","c","/","p","e","n","d","i","n","g","-","p","u","s","h","e","s",".","j","s","o","n">>

DEVICE_REGISTRY_FILE ==
  <<"s","y","n","c","/","d","e","v","i","c","e","-","r","e","g","i","s","t","r","y",".","j","s","o","n">>

VARIABLES
  now,              \* the clock: new Date()
  scriptInstalled,  \* Scripts/redact-pii.ts exists next to the hooks
  queueFile,        \* sync/pending-pushes.json: [state, entries]
  registryFile,     \* sync/device-registry.json: [state, devices, total_devices, last_updated]
  head,             \* the tree of the last commit: [fs, queueFile, registryFile]
  commits,          \* the local commits, oldest first: [hash, staged]
  pushed,           \* how many of them the remote has
  ss,               \* the run of the session-start hook
  se,               \* the run of the session-end hook
  rs                \* the run of Scripts/resolve-conflicts.ts and the files it works on

vars == <<configFile, fs, ioFail, dirFail, gate, now, scriptInstalled, queueFile,
          registryFile, head, commits, pushed, ss, se, rs>>

\* the number of hook runs that the model follows
MaxClock == 2

\* retry_count >= 3: the cap of retryPendingPushes
MaxRetries == 3

\* error.message of a failed git push
PushErrors == {"Command failed: git push --quiet"}

NoTime == 0 - 1

NoCommit == 0

\* sync/conflicts/resolution-log.md: the ConflictRecords appended so far
NoLog == [exists |-> FALSE, records |-> << >>]

\* no merge in progress: nothing for the resolver to work on
RsIdle ==
  [pc |-> "idle", memoryDir |-> TRUE, fault |-> "none", tree |-> << >>, unmerged |-> << >>,
   conflictedFiles |-> << >>, staged |-> << >>, archives |-> {}, logFile |-> NoLog,
   logAtStart |-> NoLog,
   idx |-> 0, runs |-> << >>, exit |-> 0 - 1]

(***************************************************************************)
(* .config.json                                                            *)
(***************************************************************************)
ConfigFile(state, enabled, onStart, onEnd, redact, device) ==
  [state |-> state, sync_enabled |-> enabled, on_session_start |-> onStart,
   on_session_end |-> onEnd, redact_pii |-> redact, device_name |-> device]

\* what loadConfig returns for a missing or unparseable file
NullConfig == ConfigFile("null", FALSE, FALSE, FALSE, FALSE, "")

\* loadConfig(): the parsed file, or null.  State "partial" is a JSON object
\* without the sync and privacy sections.
loadConfig ==
  IF configFile.state \in {"absent", "malformed"} THEN NullConfig ELSE configFile

\* process.exit(1) in the catch of main: the hook's own error is propagated
ExitStatusUncaught(how) == IF how = "error" THEN 1 ELSE 0

\* process.exit(1) where the hook gives up after a failed redaction
ExitStatusRedactionFatal(how) == IF how = "redactfail" THEN 1 ELSE 0

\* the exit status of process.exit for each way a hook ends
ExitStatus(how) == 0

(***************************************************************************)
(* The working tree and git                                                *)
(***************************************************************************)
\* .gitignore of INSTALL.md: the suffix patterns, and the two re-included ones
IgnoredSuffixes ==
  { <<".","t","m","p">>, <<".","b","a","k">>, <<"~">>, <<".","e","n","v">>,
    <<".","k","e","y">>, <<".","p","e","m">>,
    <<"_","p","r","i","v","a","t","e",".","m","d">>,
    <<".","i","n","-","p","r","o","g","r","e","s","s">> }

GitIgnored(path) ==
  /\ \E suf \in IgnoredSuffixes : EndsWith(path, suf)
  /\ ~(EndsWith(path, DotSafeMd) \/ EndsWith(path, DotQuickMd))

WorkTree == [fs |-> fs, queueFile |-> queueFile, registryFile |-> registryFile]

\* the paths that `git status --short` lists
ChangedPaths ==
  { p \in Paths : fs[p] # head.fs[p] /\ ~GitIgnored(p) }
    \cup (IF queueFile # head.queueFile THEN {PENDING_PUSHES_FILE} ELSE {})
    \cup (IF registryFile # head.registryFile THEN {DEVICE_REGISTRY_FILE} ELSE {})

\* `git add .` stages every listed path
StagedByAddAll == ChangedPaths

(***************************************************************************)
(* Scripts/redact-pii.ts: processFile, findMarkdownFiles, main             *)
(***************************************************************************)
\* findMarkdownFiles(): the .md files that are no derived artifacts
findMarkdownFiles ==
  { rel \in Paths :
      /\ fs[rel].exists
      /\ ~UnderDotGit(rel)
      /\ ~WalkFails(rel)
      /\ EndsWith(rel, DotMd)
      /\ ~EndsWith(rel, DotSafeMd)
      /\ ~EndsWith(rel, DotQuickMd) }

\* processFile(filePath) on the files f at clock t, stopped after `writes` writes;
\* an exception of readFileSync or writeFileSync ends it (caught and logged)
processFile(f, rel, t, writes) ==
  LET safeFilePath  == ReplaceMdSuffix(rel, DotSafeMd)
      quickFilePath == ReplaceMdSuffix(rel, DotQuickMd)
      safeContent   == redactPII(f[rel].content)
      quickContent  == generateQuickVersion(safeContent, t)
      f1 == [f EXCEPT ![safeFilePath] = File(safeContent)]
      f2 == [f1 EXCEPT ![quickFilePath] = File(quickContent)]
  IN  IF rel \in ioFail \/ writes = 0 THEN f
      ELSE IF safeFilePath \in ioFail THEN f
      ELSE IF quickFilePath \in ioFail \/ writes = 1 THEN f1
      ELSE f2

\* processFile(filePath) caught an exception
processFileFails(rel) ==
  \/ rel \in ioFail
  \/ ReplaceMdSuffix(rel, DotSafeMd) \in ioFail
  \/ ReplaceMdSuffix(rel, DotQuickMd) \in ioFail

\* the loop of main over the files found
RECURSIVE processAll(_, _, _, _)
processAll(f, files, t, writes) ==
  IF files = {} THEN f
  ELSE LET rel == CHOOSE r \in files : TRUE
       IN  processAll(processFile(f, rel, t, writes), files \ {rel}, t, writes)

(***************************************************************************)
(* Hooks/SessionEnd.ts                                                     *)
(***************************************************************************)
NoExit == 0 - 1

SeIdle ==
  [pc |-> "idle", exit |-> NoExit, how |-> "none", ops |-> << >>, redaction |-> "none",
   ioError |-> FALSE, commitHash |-> NoCommit, pushError |-> "none", logged |-> FALSE,
   pending |-> << >>]

SsIdle ==
  [pc |-> "idle", exit |-> NoExit, how |-> "none", ops |-> << >>, pull |-> "none",
   pending |-> << >>, stillPending |-> << >>, idx |-> 0, attempted |-> {}, failed |-> {}]

\* process.exit(...) of a hook run r that ends the way `how`: the process is
\* gone, its exit status and the calls it made stay to be seen
HookExit(r, how) == [r EXCEPT !.pc = "idle", !.exit = ExitStatus(how), !.how = how]

\* main of SessionEnd.ts up to "Starting cloud sync...".  An unparseable stdin
\* event and a config without its sync section throw into the catch of main.
SessionEndBegin(stdinOk) ==
  LET config == loadConfig IN
  IF ~stdinOk THEN HookExit(SeIdle, "error")
  ELSE IF config.state = "null" \/ ~config.sync_enabled THEN HookExit(SeIdle, "disabled")
  ELSE IF config.state = "partial" THEN HookExit(SeIdle, "error")
  ELSE IF ~config.on_session_end THEN HookExit(SeIdle, "disabled")
  ELSE [SeIdle EXCEPT !.pc = "redact"]

SEBegin ==
  /\ se.pc = "idle" /\ ss.pc = "idle"
  /\ now < MaxClock
  /\ now' = now + 1
  /\ \E stdinOk \in BOOLEAN : se' = SessionEndBegin(stdinOk)
  /\ ss' = SsIdle
  /\ UNCHANGED <<rs, configFile, fs, ioFail, dirFail, gate, scriptInstalled, queueFile,
                 registryFile, head, commits, pushed>>

\* step 1 of main: redactPII() of the hook runs the script with execSync.
\* writes < 2: the script was killed by the timeout after that many writes;
\* timedOut: execSync threw.
SERedact ==
  /\ se.pc = "redact"
  /\ IF ~loadConfig.redact_pii
     THEN /\ se' = [se EXCEPT !.pc = "commit", !.redaction = "off"]
          /\ fs' = fs
     ELSE IF ~scriptInstalled
     THEN /\ se' = [se EXCEPT !.pc = "commit", !.redaction = "noscript"]
          /\ fs' = fs
     ELSE \E writes \in {0, 2}, timedOut \in BOOLEAN :
            /\ writes < 2 => timedOut
            /\ fs' = processAll(fs, findMarkdownFiles, now, writes)
            /\ se' = IF timedOut
                     THEN HookExit([se EXCEPT !.redaction = "failed",
                                              !.ops = Append(@, "redact")], "redactfail")
                     ELSE [se EXCEPT !.pc = "commit", !.redaction = "ok",
                                     !.ops = Append(@, "redact"),
                                     !.ioError = \E rel \in findMarkdownFiles :
                                                    processFileFails(rel)]
  /\ UNCHANGED <<rs, configFile, ioFail, dirFail, gate, now, scriptInstalled, queueFile,
                 registryFile, head, commits, pushed, ss>>

\* createCommit without its test of the status
NothingToCommitNever(changed) == FALSE

\* status.trim() === '': git status --short lists nothing
NothingToCommit(changed) == changed = {}

\* the commit that createCommit makes of the working tree
NewCommit == [hash |-> Len(commits) + 1, staged |-> StagedByAddAll]

\* step 2 of main: createCommit(config.device_name).
\* outcome "fail_before": git status, add or commit throws; "fail_after": git
\* rev-parse throws after the commit was made.  Both return null.
SECommit ==
  /\ se.pc = "commit"
  /\ \E outcome \in {"ok", "fail_before", "fail_after"} :
       LET dirty == ~NothingToCommit(ChangedPaths) IN
       IF outcome = "fail_before" \/ ~dirty
       THEN /\ se' = HookExit([se EXCEPT !.ops = Append(@, "status")], "nocommit")
            /\ UNCHANGED <<commits, head>>
       ELSE /\ commits' = Append(commits, NewCommit)
            /\ head' = WorkTree
            /\ se' = IF outcome = "ok"
                     THEN [se EXCEPT !.pc = "push", !.commitHash = NewCommit.hash,
                                     !.ops = @ \o <<"status", "add", "commit">>]
                     ELSE HookExit([se EXCEPT !.ops = @ \o <<"status", "add", "commit">>],
                                   "nocommit")
  /\ UNCHANGED <<rs, configFile, fs, ioFail, dirFail, gate, now, scriptInstalled, queueFile,
                 registryFile, pushed, ss>>

\* step 3 of main: pushToCloud().  git push sends every local commit.
SEPush ==
  /\ se.pc = "push"
  /\ \E outcome \in {"ok"} \cup PushErrors :
       IF outcome = "ok"
       THEN /\ pushed' = Len(commits)
            /\ se' = [se EXCEPT !.pc = "log", !.ops = Append(@, "push")]
       ELSE /\ pushed' = pushed
            /\ se' = [se EXCEPT !.pc = "queue", !.pushError = outcome,
                                !.ops = Append(@, "push")]
  /\ UNCHANGED <<rs, configFile, fs, ioFail, dirFail, gate, now, scriptInstalled, queueFile,
                 registryFile, head, commits, ss>>

PendingPush(t, commitHash, error) ==
  [timestamp |-> t, commit_hash |-> commitHash, retry_count |-> 0, error |-> error,
   last_retry |-> NoTime]

ValidQueue(entries) == [state |-> "valid", entries |-> entries]

\* queuePendingPush(commitHash, error) at clock t: the queue file afterwards.
\* An unparseable file and a failing read or write throw into its catch.
queuePendingPush(q, commitHash, error, t) ==
  IF q.state = "malformed" \/ PENDING_PUSHES_FILE \in ioFail THEN q
  ELSE ValidQueue(Append(IF q.state = "absent" THEN << >> ELSE q.entries,
                         PendingPush(t, commitHash, error)))

\* pushResult.error || 'Unknown error'
ErrorOrUnknown(error) == IF error = "" THEN "Unknown error" ELSE error

SEQueue ==
  /\ se.pc = "queue"
  /\ queueFile' = queuePendingPush(queueFile, se.commitHash, ErrorOrUnknown(se.pushError), now)
  /\ se' = [se EXCEPT !.pc = "log", !.ops = Append(@, "enqueue")]
  /\ UNCHANGED <<rs, configFile, fs, ioFail, dirFail, gate, now, scriptInstalled,
                 registryFile, head, commits, pushed, ss>>

\* queuePendingPush up to JSON.parse: the array that it read.  An unparseable
\* file and a failing read throw into its catch.
SEQueueRead ==
  /\ se.pc = "queue"
  /\ se' = IF queueFile.state = "malformed" \/ PENDING_PUSHES_FILE \in ioFail
           THEN [se EXCEPT !.pc = "log", !.ops = Append(@, "enqueue")]
           ELSE [se EXCEPT !.pc = "queuewrite",
                           !.pending = IF queueFile.state = "absent" THEN << >>
                                       ELSE queueFile.entries]
  /\ UNCHANGED <<rs, configFile, fs, ioFail, dirFail, gate, now, scriptInstalled, queueFile,
                 registryFile, head, commits, pushed, ss>>

\* queuePendingPush from pending.push on: writeFileSync of the array that was
\* read, with the new entry
SEQueueWrite ==
  /\ se.pc = "queuewrite"
  /\ queueFile' = ValidQueue(Append(se.pending,
                     PendingPush(now, se.commitHash, ErrorOrUnknown(se.pushError))))
  /\ se' = [se EXCEPT !.pc = "log", !.ops = Append(@, "enqueue"), !.pending = << >>]
  /\ UNCHANGED <<rs, configFile, fs, ioFail, dirFail, gate, now, scriptInstalled,
                 registryFile, head, commits, pushed, ss>>

\* step 4 of main: generateDailyLog, whose failure is caught, and process.exit(0)
SELog ==
  /\ se.pc = "log"
  /\ \E appended \in BOOLEAN :
       se' = HookExit([se EXCEPT !.logged = appended, !.ops = Append(@, "log")], "complete")
  /\ UNCHANGED <<rs, configFile, fs, ioFail, dirFail, gate, now, scriptInstalled, queueFile,
                 registryFile, head, commits, pushed, ss>>

(***************************************************************************)
(* Hooks/SessionStart.ts                                                   *)
(***************************************************************************)
\* main without its test of config.sync.on_session_start
SessionStartBeginIgnoresSwitch(stdinOk) ==
  LET config == loadConfig IN
  IF ~stdinOk THEN HookExit(SsIdle, "error")
  ELSE IF config.state = "null" \/ ~config.sync_enabled THEN HookExit(SsIdle, "disabled")
  ELSE IF config.state = "partial" THEN HookExit(SsIdle, "error")
  ELSE [SsIdle EXCEPT !.pc = "pull"]

\* main of SessionStart.ts up to "Starting cloud sync..."
SessionStartBegin(stdinOk) ==
  LET config == loadConfig IN
  IF ~stdinOk THEN HookExit(SsIdle, "error")
  ELSE IF config.state = "null" \/ ~config.sync_enabled THEN HookExit(SsIdle, "disabled")
  ELSE IF config.state = "partial" THEN HookExit(SsIdle, "error")
  ELSE IF ~config.on_session_start THEN HookExit(SsIdle, "disabled")
  ELSE [SsIdle EXCEPT !.pc = "pull"]

\* a session start, the sessions-th at the latest
SessionStartUpTo(sessions) ==
  /\ ss.pc = "idle" /\ se.pc = "idle"
  /\ now < sessions
  /\ now' = now + 1
  /\ \E stdinOk \in BOOLEAN : ss' = SessionStartBegin(stdinOk)
  /\ se' = SeIdle
  /\ UNCHANGED <<rs, configFile, fs, ioFail, dirFail, gate, scriptInstalled, queueFile,
                 registryFile, head, commits, pushed>>

SSBegin == SessionStartUpTo(MaxClock)

\* the outcomes of pullFromCloud(): pulled, pulled with UU/AA in git status,
\* error.code ETIMEDOUT, error.status 128, any other exception
PullOutcomes == {"ok", "conflict", "ETIMEDOUT", "status128", "other"}

\* pullResult.success
PullSuccess(outcome) == outcome # "conflict"

\* main leaving out the drain after a pull that reported conflicts
AfterPullSkipsDrain(outcome) == IF PullSuccess(outcome) THEN "drain" ELSE "registry"

\* main after pullFromCloud(): a pullResult without success is logged, and
\* step 2 follows in every case
AfterPull(outcome) == "drain"

\* a memory file that git left with one conflict region
PulledConflict ==
  <<"<","<","<","<","<","<","<"," ","H","E","A","D","\n","x","\n","=","=","=","=","=","=","=",
    "\n","y","\n",">",">",">",">",">",">",">"," ","o","r","i","g","i","n","/","m","a","i","n">>

\* the working tree after a pull that stopped on a conflict: the memory file
\* is unmerged and holds the markers
Unmerged(r) ==
  [r EXCEPT !.tree = [p \in {MemoryPath} |-> PulledConflict], !.unmerged = <<MemoryPath>>]

\* step 1 of main: pullFromCloud().  A pull that reports UU/AA, and a rebase
\* that stops with a non-zero exit, leave the conflicted files unmerged.
SSPull ==
  /\ ss.pc = "pull"
  /\ \E outcome \in PullOutcomes, markers \in BOOLEAN :
       /\ outcome = "conflict" => markers
       /\ markers => outcome \in {"conflict", "other"}
       /\ rs' = IF markers THEN Unmerged(rs) ELSE rs
       /\ ss' = [ss EXCEPT !.pc = AfterPull(outcome), !.pull = outcome,
                           !.ops = Append(@, "pull")]
  /\ UNCHANGED <<configFile, fs, ioFail, dirFail, gate, now, scriptInstalled, queueFile,
                 registryFile, head, commits, pushed, se>>

\* step 2 of main: retryPendingPushes() up to its loop.  A missing file and an
\* empty array return; an unparseable file and a failing read throw into its catch.
SSDrainRead ==
  /\ ss.pc = "drain"
  /\ ss' = IF queueFile.state # "valid" \/ PENDING_PUSHES_FILE \in ioFail
              \/ queueFile.entries = << >>
           THEN [ss EXCEPT !.pc = "registry"]
           ELSE [ss EXCEPT !.pc = "retry",
                           !.pending = queueFile.entries, !.idx = 1]
  /\ UNCHANGED <<rs, configFile, fs, ioFail, dirFail, gate, now, scriptInstalled, queueFile,
                 registryFile, head, commits, pushed, se>>

\* the catch of the loop body without its update of push.error
RetryFailedKeepsError(push, error, t) ==
  [push EXCEPT !.retry_count = @ + 1, !.last_retry = t]

\* the catch of the loop body without push.retry_count++
RetryFailedKeepsCount(push, error, t) ==
  [push EXCEPT !.last_retry = t, !.error = error]

\* the catch of the loop body: the entry after a failed push at clock t
RetryFailed(push, error, t) ==
  [push EXCEPT !.retry_count = @ + 1, !.last_retry = t, !.error = error]

\* the cap compared with > in place of >=
MaxRetriesExceededOffByOne(push) == push.retry_count > MaxRetries

\* the loop without its cap
MaxRetriesNeverExceeded(push) == FALSE

\* a loop that skips every entry
MaxRetriesAlwaysExceeded(push) == TRUE

\* the entry is skipped by the loop: retry_count >= 3
MaxRetriesExceeded(push) == push.retry_count >= MaxRetries

\* stillPending.push(push) with the entry turned around
KeepEntryFirst(stillPending, push) == <<push>> \o stillPending

\* stillPending.push(push)
KeepEntry(stillPending, push) == Append(stillPending, push)

\* one iteration of the loop of retryPendingPushes
SSDrainEntry ==
  /\ ss.pc = "retry"
  /\ ss.idx <= Len(ss.pending)
  /\ LET push == ss.pending[ss.idx] IN
     IF MaxRetriesExceeded(push)
     THEN /\ ss' = [ss EXCEPT !.stillPending = KeepEntry(@, push), !.idx = @ + 1]
          /\ pushed' = pushed
     ELSE \E outcome \in {"ok"} \cup PushErrors :
            /\ pushed' = IF outcome = "ok" THEN Len(commits) ELSE pushed
            /\ ss' = [ss EXCEPT
                        !.stillPending = IF outcome = "ok" THEN @
                                         ELSE KeepEntry(@, RetryFailed(push, outcome, now)),
                        !.idx = @ + 1,
                        !.attempted = @ \cup {ss.idx},
                        !.failed = IF outcome = "ok" THEN @ ELSE @ \cup {ss.idx},
                        !.ops = Append(@, "push")]
  /\ UNCHANGED <<rs, configFile, fs, ioFail, dirFail, gate, now, scriptInstalled, queueFile,
                 registryFile, head, commits, se>>

\* the end of retryPendingPushes: writeFileSync of stillPending
SSDrainWrite ==
  /\ ss.pc = "retry"
  /\ ss.idx > Len(ss.pending)
  /\ queueFile' = ValidQueue(ss.stillPending)
  /\ ss' = [ss EXCEPT !.pc = "registry"]
  /\ UNCHANGED <<rs, configFile, fs, ioFail, dirFail, gate, now, scriptInstalled,
                 registryFile, head, commits, pushed, se>>

\* updateDeviceRegistry without its update of registry.last_updated
updateKeepsLastUpdated(reg, deviceName, t) ==
  IF reg.state # "valid" \/ DEVICE_REGISTRY_FILE \in ioFail THEN reg
  ELSE IF deviceName \notin DOMAIN reg.devices THEN reg
  ELSE [reg EXCEPT !.devices[deviceName].last_seen = t]

\* updateDeviceRegistry that also resets first_seen
updateResetsFirstSeen(reg, deviceName, t) ==
  IF reg.state # "valid" \/ DEVICE_REGISTRY_FILE \in ioFail THEN reg
  ELSE IF deviceName \notin DOMAIN reg.devices THEN reg
  ELSE [reg EXCEPT !.devices[deviceName].last_seen = t,
                   !.devices[deviceName].first_seen = t, !.last_updated = t]

\* updateDeviceRegistry that writes a new registry over an unparseable one
updateRecreatesRegistry(reg, deviceName, t) ==
  IF DEVICE_REGISTRY_FILE \in ioFail \/ reg.state = "absent" THEN reg
  ELSE IF reg.state = "malformed"
  THEN [state |-> "valid", total_devices |-> 1, last_updated |-> t,
        devices |-> [d \in {deviceName} |->
                       [first_seen |-> t, last_seen |-> t, status |-> "active"]]]
  ELSE IF deviceName \notin DOMAIN reg.devices THEN reg
  ELSE [reg EXCEPT !.devices[deviceName].last_seen = t, !.last_updated = t]

\* updateDeviceRegistry(deviceName) at clock t: the registry file afterwards
updateDeviceRegistry(reg, deviceName, t) ==
  IF reg.state # "valid" \/ DEVICE_REGISTRY_FILE \in ioFail THEN reg
  ELSE IF deviceName \notin DOMAIN reg.devices THEN reg
  ELSE [reg EXCEPT !.devices[deviceName].last_seen = t, !.last_updated = t]

\* step 3 of main, and process.exit(0)
SSRegistry ==
  /\ ss.pc = "registry"
  /\ registryFile' = IF loadConfig.device_name # ""
                     THEN updateDeviceRegistry(registryFile, loadConfig.device_name, now)
                     ELSE registryFile
  /\ ss' = HookExit([SsIdle EXCEPT !.ops = ss.ops, !.pull = ss.pull], "complete")
  /\ UNCHANGED <<rs, configFile, fs, ioFail, dirFail, gate, now, scriptInstalled, queueFile,
                 head, commits, pushed, se>>

(***************************************************************************)
(* Hooks/PrePush.ts: main                                                  *)
(***************************************************************************)
GateIdle == [ran |-> FALSE, stdinOk |-> TRUE, exit |-> NoExit, report |-> {}]

\* process.exit(2) on every path, the catch of main included
GateExitFailClosed(blocked) == 2

\* process.exit(2) blocks the push, process.exit(0) allows it
GateExit(blocked) == IF blocked THEN 2 ELSE 0

\* piiDetected: the files that checkFileForPII flags, with their findings
piiDetected ==
  LET result == [rel \in getFilesToCheck |-> checkFileForPII(rel)]
  IN  { [file |-> rel, findings |-> result[rel].findings] :
          rel \in { r \in getFilesToCheck : result[r].hasPII } }

\* main of PrePush.ts: [exit, report].  An unparseable stdin event and a config
\* without its privacy section throw into the catch of main.
PrePushResult(stdinOk) ==
  LET config  == loadConfig
      allowed == [exit |-> GateExit(FALSE), report |-> {}]
  IN  IF ~stdinOk THEN allowed
      ELSE IF config.state \in {"null", "partial"} \/ ~config.redact_pii THEN allowed
      ELSE IF getFilesToCheck = {} THEN allowed
      ELSE LET detected == piiDetected
           IN  IF detected # {} THEN [exit |-> GateExit(TRUE), report |-> detected]
               ELSE allowed

\* one execution of the hook process, from its start to its exit
PrePushMain ==
  /\ ss.pc = "idle" /\ se.pc = "idle"
  /\ ~gate.ran
  /\ \E stdinOk \in BOOLEAN :
       LET result == PrePushResult(stdinOk)
       IN  gate' = [ran |-> TRUE, stdinOk |-> stdinOk,
                    exit |-> result.exit, report |-> result.report]
  /\ UNCHANGED <<rs, configFile, fs, ioFail, dirFail, now, scriptInstalled, queueFile,
                 registryFile, head, commits, pushed, ss, se>>

(***************************************************************************)
(* The user and the initial states                                         *)
(***************************************************************************)
TextClean ==
  <<"#","#"," ","U","s","e","r"," ","P","r","o","f","i","l","e","\n","h","i">>

TextMarked ==
  <<"#","#"," ","U","s","e","r"," ","P","r","o","f","i","l","e","\n">>
    \o OpenMarker(<<"E","M","A","I","L">>) \o <<"a","@","b",".","c","o">>
    \o CloseMarker(<<"E","M","A","I","L">>)

TextBare ==
  <<"#","#"," ","U","s","e","r"," ","P","r","o","f","i","l","e","\n",
    "m","a","i","l"," ","a","@","b",".","c","o">>

\* the contents that the user gives the memory file
MemoryTexts == {TextClean, TextMarked, TextBare}

\* the user edits global-memory.md between two hook runs
EditMemory ==
  /\ ss.pc = "idle" /\ se.pc = "idle"
  /\ now < MaxClock
  /\ \E text \in MemoryTexts :
       /\ fs[MemoryPath] # File(text)
       /\ fs' = [fs EXCEPT ![MemoryPath] = File(text)]
  /\ UNCHANGED <<rs, configFile, ioFail, dirFail, gate, now, scriptInstalled, queueFile,
                 registryFile, head, commits, pushed, ss, se>>

DeviceName == "laptop-work"

OtherDevice == "desktop-home"

EnabledConfig(redact) == ConfigFile("valid", TRUE, TRUE, TRUE, redact, DeviceName)

\* the .config.json files of the initial states
ConfigFiles ==
  { ConfigFile("absent", FALSE, FALSE, FALSE, FALSE, ""),
    ConfigFile("malformed", FALSE, FALSE, FALSE, FALSE, ""),
    ConfigFile("partial", TRUE, FALSE, FALSE, FALSE, ""),
    ConfigFile("valid", FALSE, TRUE, TRUE, TRUE, DeviceName),
    ConfigFile("valid", TRUE, FALSE, FALSE, TRUE, DeviceName),
    ConfigFile("valid", TRUE, FALSE, TRUE, TRUE, DeviceName),
    ConfigFile("valid", TRUE, TRUE, FALSE, TRUE, DeviceName),
    ConfigFile("valid", TRUE, TRUE, TRUE, TRUE, ""),
    EnabledConfig(TRUE),
    EnabledConfig(FALSE) }

Device(firstSeen, lastSeen) ==
  [first_seen |-> firstSeen, last_seen |-> lastSeen, status |-> "active"]

Registry(state, devices) ==
  [state |-> state, devices |-> devices, total_devices |-> Cardinality(DOMAIN devices),
   last_updated |-> 0]

\* the registry files of the initial states
RegistryFiles ==
  { Registry("absent", << >>), Registry("malformed", << >>),
    Registry("valid", [d \in {DeviceName} |-> Device(0, 0)]),
    Registry("valid", [d \in {OtherDevice} |-> Device(0, 0)]) }

\* a queue left by earlier sessions: one entry for commit 1, retried r times
CarriedQueue(r) ==
  ValidQueue(<< [PendingPush(0, 1, "Network timeout") EXCEPT
                   !.retry_count = r,
                   !.last_retry = IF r = 0 THEN NoTime ELSE 0] >>)

\* the queue files of the initial states: none, unparseable, the empty array,
\* and the queues that earlier sessions leave
QueueFiles ==
  { [state |-> "absent", entries |-> << >>], [state |-> "malformed", entries |-> << >>],
    ValidQueue(<< >>) } \cup { CarriedQueue(r) : r \in 0..MaxRetries }

\* the I/O faults of the initial states: at most one path fails
IoFaults ==
  {{}} \cup { {p} : p \in {MemoryPath, SafePath, QuickPath, PENDING_PUSHES_FILE,
                            DEVICE_REGISTRY_FILE} }

Environment(config, faults, script, queue, registry) ==
  [configFile |-> config, ioFail |-> faults, scriptInstalled |-> script,
   queueFile |-> queue, registryFile |-> registry]

\* the installed pack: sync and redaction enabled, device registered, empty queue
BaseEnvironment ==
  Environment(EnabledConfig(TRUE), {}, TRUE, ValidQueue(<< >>),
              Registry("valid", [d \in {DeviceName} |-> Device(0, 0)]))

\* the initial environments: the installed pack, and each way to differ from it
\* in the configuration, an I/O fault, the script, the queue or the registry;
\* and a pack that was switched off while a push was queued
Environments ==
  { [BaseEnvironment EXCEPT !.configFile = c] : c \in ConfigFiles }
    \cup { [BaseEnvironment EXCEPT !.configFile = c, !.queueFile = CarriedQueue(0)] :
             c \in { f \in ConfigFiles : f.state = "valid" /\ ~f.sync_enabled } }
    \cup { [BaseEnvironment EXCEPT !.ioFail = f] : f \in IoFaults }
    \cup { [BaseEnvironment EXCEPT !.scriptInstalled = b] : b \in BOOLEAN }
    \cup { [BaseEnvironment EXCEPT !.queueFile = q] : q \in QueueFiles }
    \cup { [BaseEnvironment EXCEPT !.registryFile = r] : r \in RegistryFiles }
    \cup { [BaseEnvironment EXCEPT !.registryFile = Registry("malformed", << >>),
                                   !.queueFile = CarriedQueue(0)] }

\* the files after an earlier session end over the clean memory file
InitFs ==
  [p \in Paths |->
     IF p = MemoryPath THEN File(TextClean)
     ELSE IF p = SafePath THEN File(redactPII(TextClean))
     ELSE IF p = QuickPath THEN File(generateQuickVersion(redactPII(TextClean), 0))
     ELSE NoFile]

\* the commit of an earlier session end that a carried queue entry names
CarriedCommit == [hash |-> 1, staged |-> {SafePath, QuickPath}]

Init ==
  /\ \E env \in Environments :
       /\ configFile = env.configFile
       /\ ioFail = env.ioFail
       /\ scriptInstalled = env.scriptInstalled
       /\ queueFile = env.queueFile
       /\ registryFile = env.registryFile
  /\ fs = InitFs
  /\ dirFail = {}
  /\ gate = GateIdle
  /\ now = 0
  /\ head = [fs |-> fs, queueFile |-> queueFile, registryFile |-> registryFile]
  /\ commits = IF queueFile.entries = << >> THEN << >> ELSE <<CarriedCommit>>
  /\ pushed = 0
  /\ ss = SsIdle
  /\ se = SeIdle
  /\ rs = RsIdle

Next ==
  \/ EditMemory
  \/ SEBegin \/ SERedact \/ SECommit \/ SEPush \/ SEQueue \/ SELog
  \/ SSBegin \/ SSPull \/ SSDrainRead \/ SSDrainEntry \/ SSDrainWrite \/ SSRegistry

Spec == Init /\ [][Next]_vars

(***************************************************************************)
(* The PrePush hook over bounded derived artifacts                         *)
(***************************************************************************)
\* the pieces that the artifact texts of the gate runs are made of
Fragments ==
  { <<"h","i"," ">>,
    <<"a","@","b",".","c","o"," ">>,
    <<"5","5","5","-","1","2","3","4"," ">>,
    PiiToken("email"),
    RedactedToken("email") \o <<" ">>,
    RedactedToken("phone") \o <<" ">> }

\* the longest artifact text, in fragments
MaxFragments == 2

\* the texts of at most n fragments
RECURSIVE TextsUpTo(_)
TextsUpTo(n) ==
  IF n = 0 THEN {<< >>}
  ELSE TextsUpTo(n - 1) \cup { t \o f : t \in TextsUpTo(n - 1), f \in Fragments }

ArtifactTexts == TextsUpTo(MaxFragments)

\* the configurations that the gate tells apart
GateConfigs ==
  { c \in ConfigFiles : c.state # "valid" \/ c \in {EnabledConfig(TRUE), EnabledConfig(FALSE)} }

InitGate ==
  /\ configFile \in GateConfigs
  /\ \E safe \in {NoFile} \cup { File(t) : t \in ArtifactTexts },
        quick \in {NoFile, File(<<"a","@","b",".","c","o">>)},
        sub \in {NoFile, File(<<"a","@","b",".","c","o">>)} :
       fs = [p \in Paths |->
               IF p = MemoryPath THEN File(TextBare)
               ELSE IF p = SafePath THEN safe
               ELSE IF p = QuickPath THEN quick
               ELSE sub]
  /\ ioFail \in {{}, {SafePath}, {QuickPath}}
  /\ dirFail \in {{}, {<< >>}, {SubDir}}
  /\ (configFile # EnabledConfig(TRUE) => ioFail = {} /\ dirFail = {})
  /\ gate = GateIdle
  /\ now = 0
  /\ scriptInstalled = TRUE
  /\ queueFile = ValidQueue(<< >>)
  /\ registryFile = BaseEnvironment.registryFile
  /\ head = [fs |-> fs, queueFile |-> queueFile, registryFile |-> registryFile]
  /\ commits = << >>
  /\ pushed = 0
  /\ ss = SsIdle
  /\ se = SeIdle
  /\ rs = RsIdle

NextGate == PrePushMain

SpecGate == InitGate /\ [][NextGate]_vars

(***************************************************************************)
(* The hooks: exit status, redaction, commit and push                      *)
(***************************************************************************)
\* the run r made the call op
Did(r, op) == \E i \in DOMAIN r.ops : r.ops[i] = op

\* C1: every run of the session-start hook ends with exit status 0, whatever
\* the stdin event, the configuration, the pull outcome, the queue file, the
\* registry file and the outcome of each retried push; and a run that has not
\* exited always has a next step to its exit.
C1_SessionStartExitsZero ==
  /\ ss.exit \in {NoExit, 0}
  /\ (ss.how # "none" => ss.exit = 0)
  /\ (ss.pc # "idle" =>
        ENABLED (SSPull \/ SSDrainRead \/ SSDrainEntry \/ SSDrainWrite \/ SSRegistry))

\* a run that exited 0 through the catch of main
C1_ExitAfterHookError == ss.how = "error" /\ ss.exit = 0 /\ configFile.state = "partial"

\* C2: every run of the session-end hook ends with exit status 0, whatever the
\* outcome of the redaction, of the status/commit step, of the push, of the
\* queue write and of the daily-log append; and a run past its redaction step
\* that has not exited always has a next step to its exit.
C2_SessionEndExitsZero ==
  /\ se.exit \in {NoExit, 0}
  /\ (se.how # "none" => se.exit = 0)
  /\ se.pc \in {"idle", "redact", "commit", "push", "queue", "log"}
  /\ (se.pc \notin {"idle", "redact"} => ENABLED (SECommit \/ SEPush \/ SEQueue \/ SELog))

\* a run that exited 0 after its push failed and the queue file could not be
\* written, without the daily log
C2_ExitAfterEveryFailure ==
  /\ se.how = "complete" /\ se.exit = 0
  /\ se.pushError # "none"
  /\ queueFile.state = "malformed"
  /\ ~se.logged

\* C3: in session-end with redact_pii true, when the redaction script cannot
\* read a memory file or cannot write a derived artifact, the run makes no
\* commit, attempts no push and enqueues no PendingPush record.
C3_IoErrorAbortsTransaction ==
  se.ioError => ~Did(se, "commit") /\ ~Did(se, "push") /\ ~Did(se, "enqueue")

\* the quick artifact could not be written, and the run committed and pushed
C3_PushedAfterIoError ==
  /\ se.ioError /\ QuickPath \in ioFail
  /\ Did(se, "commit") /\ Did(se, "push")
  /\ pushed = Len(commits)

\* C4: no commit that session-end creates stages a raw memory file: only
\* derived safe/quick artifacts and non-memory files are staged.
C4_NoRawMemoryFileStaged ==
  \A i \in DOMAIN commits : MemoryPath \notin commits[i].staged

\* a pushed commit that stages the raw memory file with its unmarked e-mail
C4_RawMemoryFilePushed ==
  \E i \in DOMAIN commits :
     /\ MemoryPath \in commits[i].staged
     /\ i <= pushed
     /\ head.fs[MemoryPath] = File(TextBare)

\* C5: no push is attempted, by session-end or by the drain of session-start,
\* while the pre-transmission gate would return blocked for the derived
\* artifacts on disk.
C5_NoPushWhileGateBlocks ==
  (Did(se, "push") \/ Did(ss, "push")) => PrePushResult(TRUE).exit # GateExit(TRUE)

\* the drain retried a push over artifacts for which the gate returns blocked
C5_DrainPushedBlockedArtifacts ==
  /\ Did(ss, "push")
  /\ loadConfig.redact_pii
  /\ PrePushResult(TRUE).exit = GateExit(TRUE)

(***************************************************************************)
(* The pre-transmission gate                                               *)
(***************************************************************************)
\* the gate ran to its scan: the event parsed, the configuration loaded with
\* redact_pii true
GateScanned ==
  /\ gate.ran /\ gate.stdinOk
  /\ configFile.state = "valid" /\ configFile.redact_pii

\* the derived artifacts whose content the gate reads
ScannedArtifacts ==
  { rel \in getFilesToCheck :
      rel \notin ioFail /\ ~Includes(FullPath(rel), <<".","g","i","t","/">>) }

\* the content has a match of a pattern whose [PII:TYPE] and [REDACTED:TYPE]
\* tokens both occur nowhere in it
HasUnflaggedMatch(content) ==
  \E n \in DOMAIN PiiTypes :
     /\ HasMatch(PII_PATTERNS(PiiTypes[n]), content)
     /\ ~Includes(content, PiiToken(PiiTypes[n]))
     /\ ~Includes(content, RedactedToken(PiiTypes[n]))

BareEmailInSafeArtifact ==
  /\ SafePath \in ScannedArtifacts
  /\ HasMatch(PII_PATTERNS("email"), fs[SafePath].content)
  /\ ~Includes(fs[SafePath].content, PiiToken("email"))

\* C7: a derived artifact that holds a bare string matching the e-mail pattern
\* always blocks the transmission.
C7_BareEmailBlocks == GateScanned /\ BareEmailInSafeArtifact => gate.exit = 2

\* the gate allowed artifacts whose only e-mail match is bare
C7_BareEmailAllowed ==
  /\ GateScanned /\ BareEmailInSafeArtifact
  /\ ~fs[QuickPath].exists
  /\ gate.exit = 0

\* an error of the scanner: the stdin event is unreadable, an artifact that the
\* walk found is unreadable, or the walk gave up on a directory
ScannerError ==
  \/ ~gate.stdinOk
  \/ \E rel \in getFilesToCheck : rel \in ioFail
  \/ << >> \in dirFail
  \/ SubDir \in dirFail /\ fs[SubArtifactPath].exists

\* C8 as stated: on any internal scanner error the gate exits 0.
C8_AnyScannerErrorAllows == gate.ran /\ ScannerError => gate.exit = 0

\* C8: an error of the run as a whole (unreadable stdin event, configuration
\* that cannot be read or lacks its privacy section, walk that gave up on
\* MEMORY_DIR) makes the gate exit 0; an unreadable artifact or directory adds
\* no finding; and the gate exits 2 only when the scan of a readable artifact
\* that the walk reached reported a finding.
C8_FailsOpenPerFile ==
  gate.ran =>
    /\ gate.exit \in {0, 2}
    /\ (~gate.stdinOk \/ configFile.state # "valid" \/ << >> \in dirFail => gate.exit = 0)
    /\ (gate.exit = 2 => gate.report # {})
    /\ \A r \in gate.report :
          /\ r.file \in ScannedArtifacts
          /\ DirOf(r.file) \notin dirFail
          /\ r.findings # {}
          /\ HasUnflaggedMatch(fs[r.file].content)

\* the gate blocked on the quick artifact while the safe one was unreadable
C8_BlockedBesideUnreadable ==
  /\ gate.ran /\ gate.exit = 2
  /\ fs[SafePath].exists /\ SafePath \in ioFail
  /\ \A r \in gate.report : r.file = QuickPath

(***************************************************************************)
(* The pending-push queue                                                  *)
(***************************************************************************)
\* the entries of the queue file and of the drain under way
QueueEntries ==
  { queueFile.entries[i] : i \in DOMAIN queueFile.entries }
    \cup { ss.pending[i] : i \in DOMAIN ss.pending }
    \cup { ss.stillPending[i] : i \in DOMAIN ss.stillPending }

\* C9: after any sequence of session-end enqueues and session-start drains
\* with arbitrary push outcomes, every PendingPush entry has
\* 0 <= retry_count <= 3.
C9_RetryCountBounded ==
  \A e \in QueueEntries : 0 <= e.retry_count /\ e.retry_count <= 3

\* a drain wrote back an entry whose third retry failed in this run, beside an
\* entry that session-end enqueued
C9_ThirdRetryFailed ==
  /\ ss.how = "complete"
  /\ \E i \in DOMAIN queueFile.entries :
        /\ queueFile.entries[i].retry_count = 3
        /\ queueFile.entries[i].last_retry = now
  /\ \E i \in DOMAIN queueFile.entries : queueFile.entries[i].timestamp > 0

\* C10: an entry whose retry_count is 3 is left untouched by a drain: no push
\* is attempted for it, and the queue file that the drain writes holds it
\* unchanged, whatever the outcome of the pushes for the other entries.
C10_CappedEntryUntouched ==
  ss.pc = "registry" =>
    \A i \in DOMAIN ss.pending :
       ss.pending[i].retry_count = 3 =>
         /\ i \notin ss.attempted
         /\ \E j \in DOMAIN queueFile.entries : queueFile.entries[j] = ss.pending[i]

\* a drain kept the capped entry and removed the other one, whose push succeeded
C10_CappedKeptOtherPushed ==
  /\ ss.pc = "registry"
  /\ Len(ss.pending) = 2
  /\ ss.pending[1].retry_count = 3
  /\ ss.attempted = {2}
  /\ queueFile.entries = <<ss.pending[1]>>
  /\ pushed = Len(commits)

\* the drain went through its loop and wrote the queue file
DrainWritten == ss.pc = "registry" /\ ss.pending # << >>

\* the entries of the queue file that stand for the entry push of the drain
KeptAs(push) ==
  { j \in DOMAIN queueFile.entries :
      /\ queueFile.entries[j].commit_hash = push.commit_hash
      /\ queueFile.entries[j].timestamp = push.timestamp }

NthOf(S, n) == CHOOSE i \in S : Cardinality({ k \in S : k < i }) = n - 1

\* C12: the drain takes the entries in queue order, a failed push does not
\* stop the attempt for a later entry, and the entries that remain are in the
\* same relative order as before.
C12_DrainInQueueOrder ==
  /\ (ss.pc = "retry" =>
        ss.attempted = { i \in 1..(ss.idx - 1) : ss.pending[i].retry_count < 3 })
  /\ (DrainWritten =>
        LET kept == { i \in DOMAIN ss.pending : i \notin ss.attempted \/ i \in ss.failed }
        IN  /\ Len(queueFile.entries) = Cardinality(kept)
            /\ \A j \in DOMAIN queueFile.entries : j \in KeptAs(ss.pending[NthOf(kept, j)]))

\* both pushes of a drain failed, and both entries are written back in order
C12_BothFailedBothKept ==
  /\ DrainWritten
  /\ ss.failed = {1, 2}
  /\ Len(queueFile.entries) = 2
  /\ queueFile.entries[1].timestamp < queueFile.entries[2].timestamp

\* C13: when session-end created a commit and its push failed, the queue
\* afterwards is the queue before with exactly one entry appended at the end,
\* which carries that commit's identifier and retry_count 0.
C13_PushFailureAppendsOneEntry ==
  Did(se, "enqueue") =>
    LET before == head.queueFile.entries IN
    /\ queueFile.state = "valid"
    /\ Len(queueFile.entries) = Len(before) + 1
    /\ SubSeq(queueFile.entries, 1, Len(before)) = before
    /\ queueFile.entries[Len(queueFile.entries)].commit_hash = se.commitHash
    /\ queueFile.entries[Len(queueFile.entries)].retry_count = 0

\* the push failed over an unparseable queue file, which is as it was
C13_NothingAppended ==
  /\ Did(se, "enqueue")
  /\ head.queueFile.state = "malformed"
  /\ queueFile = head.queueFile

\* C14: each commit of session-end whose push failed is recorded by an entry
\* of the pending-push queue or has been pushed since, also when the queue
\* file was missing, empty or unparseable at the failure.
C14_FailedPushRecordedOrPushed ==
  se.how = "complete" /\ se.pushError # "none" =>
    \/ se.commitHash <= pushed
    \/ \E j \in DOMAIN queueFile.entries : queueFile.entries[j].commit_hash = se.commitHash

\* a session end is over, its commit neither pushed nor in the queue
C14_CommitLost ==
  /\ se.how = "complete" /\ se.pushError # "none"
  /\ se.commitHash > pushed
  /\ \A j \in DOMAIN queueFile.entries : queueFile.entries[j].commit_hash # se.commitHash
  /\ Len(commits) >= se.commitHash

(***************************************************************************)
(* Scripts/register-device.ts, and the runs that keep the registry         *)
(***************************************************************************)
\* the names that the user gives at the prompt
DeviceNames == {DeviceName, OtherDevice}

\* loadRegistry(): the parsed file, or a new registry when there is no file
loadRegistry(reg, t) ==
  IF reg.state = "absent"
  THEN [state |-> "valid", devices |-> << >>, total_devices |-> 0, last_updated |-> t]
  ELSE reg

\* main of register-device.ts: the registry with deviceName registered at clock
\* t.  first_seen is kept when the device is overwritten.
registerDevice(reg, deviceName, t) ==
  LET registry == loadRegistry(reg, t)
      firstSeen == IF deviceName \in DOMAIN registry.devices
                   THEN registry.devices[deviceName].first_seen ELSE t
      devices == [d \in DOMAIN registry.devices \cup {deviceName} |->
                    IF d = deviceName THEN Device(firstSeen, t) ELSE registry.devices[d]]
  IN  [state |-> "valid", devices |-> devices,
       total_devices |-> Cardinality(DOMAIN devices), last_updated |-> t]

\* main of register-device.ts: the configuration afterwards.  A missing or
\* unparseable file is replaced by the default configuration.
registerConfig(config, deviceName) ==
  IF config.state \in {"absent", "malformed"}
  THEN [EnabledConfig(TRUE) EXCEPT !.device_name = deviceName]
  ELSE [config EXCEPT !.device_name = deviceName]

\* one run of register-device.ts, the user answering yes to an overwrite.  An
\* unparseable registry ends it with exit 1 in loadRegistry, a failing write in
\* saveRegistry; neither changes a file.
RegisterDevice ==
  /\ ss.pc = "idle" /\ se.pc = "idle"
  /\ \E deviceName \in DeviceNames :
       IF registryFile.state = "malformed" \/ DEVICE_REGISTRY_FILE \in ioFail
       THEN UNCHANGED <<registryFile, configFile>>
       ELSE /\ registryFile' = registerDevice(registryFile, deviceName, now)
            /\ configFile' = registerConfig(configFile, deviceName)
  /\ UNCHANGED <<rs, fs, ioFail, dirFail, gate, now, scriptInstalled, queueFile,
                 head, commits, pushed, ss, se>>

\* the registry file of INSTALL.md, no file, and an unparseable file
InstalledRegistries ==
  { [state |-> "valid", devices |-> << >>, total_devices |-> 0, last_updated |-> 0],
    [state |-> "absent", devices |-> << >>, total_devices |-> 0, last_updated |-> 0],
    [state |-> "malformed", devices |-> << >>, total_devices |-> 0, last_updated |-> 0] }

InitRegistry ==
  /\ configFile \in { c \in ConfigFiles : c.state = "absent" \/ c.sync_enabled }
  /\ registryFile \in InstalledRegistries
  /\ fs = InitFs
  /\ ioFail = {}
  /\ dirFail = {}
  /\ gate = GateIdle
  /\ now = 0
  /\ scriptInstalled = TRUE
  /\ queueFile = ValidQueue(<< >>)
  /\ head = [fs |-> fs, queueFile |-> queueFile, registryFile |-> registryFile]
  /\ commits = << >>
  /\ pushed = 0
  /\ ss = SsIdle
  /\ se = SeIdle
  /\ rs = RsIdle

NextRegistry == RegisterDevice \/ SSBegin \/ SSPull \/ SSDrainRead \/ SSRegistry

SpecRegistry == InitRegistry /\ [][NextRegistry]_vars

(***************************************************************************)
(* Scripts/redact-pii.ts run by hand over bounded marked texts             *)
(***************************************************************************)
\* the pieces that the marked memory files are made of: the markers of two
\* types and a value
MarkFragments ==
  { OpenMarker(<<"A">>), CloseMarker(<<"A">>), OpenMarker(<<"B">>), CloseMarker(<<"B">>),
    <<"z">> }

\* an opening marker written in lower case
LowerOpen == <<"[","p","i","i",":","A","]">>

\* the longest marked memory file, in fragments
MaxMarks == 5

\* the texts of at most n mark fragments
RECURSIVE MarkedUpTo(_)
MarkedUpTo(n) ==
  IF n = 0 THEN {<< >>}
  ELSE MarkedUpTo(n - 1) \cup { t \o f : t \in MarkedUpTo(n - 1), f \in MarkFragments }

\* the marked memory files, and those that start with a lower-case marker
MarkedTexts == MarkedUpTo(MaxMarks) \cup { LowerOpen \o t : t \in MarkedUpTo(2) }

InitRedact ==
  /\ configFile = EnabledConfig(TRUE)
  /\ registryFile = Registry("valid", [d \in {DeviceName} |-> Device(0, 0)])
  /\ \E x \in MarkedTexts : fs = [p \in Paths |-> IF p = MemoryPath THEN File(x) ELSE NoFile]
  /\ ioFail = {}
  /\ dirFail = {}
  /\ gate = GateIdle
  /\ now = 0
  /\ scriptInstalled = TRUE
  /\ queueFile = ValidQueue(<< >>)
  /\ head = [fs |-> fs, queueFile |-> queueFile, registryFile |-> registryFile]
  /\ commits = << >>
  /\ pushed = 0
  /\ ss = SsIdle
  /\ se = SeIdle
  /\ rs = RsIdle

\* main of redact-pii.ts: processFile over the files that findMarkdownFiles finds
RedactMain ==
  /\ ss.pc = "idle" /\ se.pc = "idle"
  /\ fs' = processAll(fs, findMarkdownFiles, now, 2)
  /\ UNCHANGED <<rs, configFile, ioFail, dirFail, gate, now, scriptInstalled, queueFile,
                 registryFile, head, commits, pushed, ss, se>>

NextRedact == RedactMain

SpecRedact == InitRedact /\ [][NextRedact]_vars

(***************************************************************************)
(* Scripts/redact-pii.ts run by hand over bounded texts with headings      *)
(***************************************************************************)
\* the lines that the memory files with sections are made of: two headings of
\* includeSections, other headings of the levels 1 to 3, a content line and
\* an empty line
HeadingLines ==
  { <<"#"," ","P","A","I"," ","G","l","o","b","a","l"," ","M","e","m","o","r","y">>,
    <<"#","#"," ","U","s","e","r"," ","P","r","o","f","i","l","e">>,
    <<"#"," ","T">>, <<"#","#"," ","N">>, <<"#","#","#"," ","S">>,
    <<"x">>, << >> }

\* the longest memory file with sections, in lines
MaxLines == 4

\* the sequences of 1 to n lines
RECURSIVE LinesOfUpTo(_)
LinesOfUpTo(n) ==
  IF n = 1 THEN { <<l>> : l \in HeadingLines }
  ELSE LinesOfUpTo(n - 1) \cup { Append(t, l) : t \in LinesOfUpTo(n - 1), l \in HeadingLines }

HeadedTexts == { JoinLines(t) : t \in LinesOfUpTo(MaxLines) }

InitQuick ==
  /\ configFile = EnabledConfig(TRUE)
  /\ registryFile = Registry("valid", [d \in {DeviceName} |-> Device(0, 0)])
  /\ \E x \in HeadedTexts : fs = [p \in Paths |-> IF p = MemoryPath THEN File(x) ELSE NoFile]
  /\ ioFail = {}
  /\ dirFail = {}
  /\ gate = GateIdle
  /\ now = 0
  /\ scriptInstalled = TRUE
  /\ queueFile = ValidQueue(<< >>)
  /\ head = [fs |-> fs, queueFile |-> queueFile, registryFile |-> registryFile]
  /\ commits = << >>
  /\ pushed = 0
  /\ ss = SsIdle
  /\ se = SeIdle
  /\ rs = RsIdle

SpecQuick == InitQuick /\ [][NextRedact]_vars

(***************************************************************************)
(* The life of a queued push over several session starts                   *)
(***************************************************************************)
\* the most session starts in the life of a queued push
MaxSessions == 4

\* the queues that session end leaves after a failed push: one new entry, and
\* a new entry behind one that was retried once
FreshQueues ==
  { CarriedQueue(0),
    ValidQueue(CarriedQueue(1).entries \o <<PendingPush(0, 2, "Network timeout")>>) }

InitRetry ==
  /\ configFile = EnabledConfig(TRUE)
  /\ registryFile = Registry("valid", [d \in {DeviceName} |-> Device(0, 0)])
  /\ fs = InitFs
  /\ ioFail = {}
  /\ dirFail = {}
  /\ gate = GateIdle
  /\ now = 0
  /\ scriptInstalled = TRUE
  /\ queueFile \in FreshQueues
  /\ head = [fs |-> fs, queueFile |-> queueFile, registryFile |-> registryFile]
  /\ commits = <<CarriedCommit>>
  /\ pushed = 0
  /\ ss = SsIdle
  /\ se = SeIdle
  /\ rs = RsIdle

SSBeginRetry == SessionStartUpTo(MaxSessions)

NextRetry ==
  SSBeginRetry \/ SSPull \/ SSDrainRead \/ SSDrainEntry \/ SSDrainWrite \/ SSRegistry

SpecRetry == InitRetry /\ [][NextRetry]_vars

(***************************************************************************)
(* Session starts while every push succeeds                                *)
(***************************************************************************)
\* the queues that earlier failures leave: one entry retried 0 to 3 times, a
\* new entry behind a retried one, and a new entry behind one at the cap
LeftQueues ==
  { CarriedQueue(r) : r \in 0..MaxRetries } \cup FreshQueues
    \cup { ValidQueue(CarriedQueue(MaxRetries).entries \o <<PendingPush(0, 2, "Network timeout")>>) }

InitLive ==
  /\ configFile = EnabledConfig(TRUE)
  /\ registryFile = Registry("valid", [d \in {DeviceName} |-> Device(0, 0)])
  /\ fs = InitFs
  /\ ioFail = {}
  /\ dirFail = {}
  /\ gate = GateIdle
  /\ now = 0
  /\ scriptInstalled = TRUE
  /\ queueFile \in LeftQueues
  /\ head = [fs |-> fs, queueFile |-> queueFile, registryFile |-> registryFile]
  /\ commits = <<CarriedCommit>>
  /\ pushed = 0
  /\ ss = SsIdle
  /\ se = SeIdle
  /\ rs = RsIdle

\* one iteration of the loop whose push, if it makes one, succeeds
SSDrainEntryOk == SSDrainEntry /\ ss'.failed = ss.failed

NextLive ==
  SSBeginRetry \/ SSPull \/ SSDrainRead \/ SSDrainEntryOk \/ SSDrainWrite \/ SSRegistry

\* a hook that has started runs to its end: the steps of main are not suspended
SpecLive == InitLive /\ [][NextLive]_vars /\ WF_vars(NextLive)

(***************************************************************************)
(* Two hook processes of one device that overlap                           *)
(***************************************************************************)
\* a second session of the device starts while the hook of an ending session
\* is running
SSBeginDuringEnd ==
  /\ ss.pc = "idle" /\ se.pc # "idle"
  /\ now < MaxClock
  /\ now' = now + 1
  /\ \E stdinOk \in BOOLEAN : ss' = SessionStartBegin(stdinOk)
  /\ UNCHANGED <<rs, configFile, fs, ioFail, dirFail, gate, scriptInstalled, queueFile,
                 registryFile, head, commits, pushed, se>>

\* a session of the device ends while the hook of a starting session is running
SEBeginDuringStart ==
  /\ se.pc = "idle" /\ ss.pc # "idle"
  /\ now < MaxClock
  /\ now' = now + 1
  /\ \E stdinOk \in BOOLEAN : se' = SessionEndBegin(stdinOk)
  /\ UNCHANGED <<rs, configFile, fs, ioFail, dirFail, gate, scriptInstalled, queueFile,
                 registryFile, head, commits, pushed, ss>>

\* the installed pack with an edited memory file, and a queue that is empty or
\* holds one push
InitOverlap ==
  /\ configFile = EnabledConfig(TRUE)
  /\ registryFile = Registry("valid", [d \in {DeviceName} |-> Device(0, 0)])
  /\ fs = [InitFs EXCEPT ![MemoryPath] = File(TextMarked)]
  /\ ioFail = {}
  /\ dirFail = {}
  /\ gate = GateIdle
  /\ now = 0
  /\ scriptInstalled = TRUE
  /\ queueFile \in {ValidQueue(<< >>), CarriedQueue(0)}
  /\ head = [fs |-> InitFs, queueFile |-> queueFile, registryFile |-> registryFile]
  /\ commits = IF queueFile.entries = << >> THEN << >> ELSE <<CarriedCommit>>
  /\ pushed = 0
  /\ ss = SsIdle
  /\ se = SeIdle
  /\ rs = RsIdle

NextOverlap ==
  \/ SEBegin \/ SEBeginDuringStart
  \/ SERedact \/ SECommit \/ SEPush \/ SEQueueRead \/ SEQueueWrite \/ SELog
  \/ SSBegin \/ SSBeginDuringEnd
  \/ SSPull \/ SSDrainRead \/ SSDrainEntry \/ SSDrainWrite \/ SSRegistry

SpecOverlap == InitOverlap /\ [][NextOverlap]_vars

(***************************************************************************)
(* Scripts/resolve-conflicts.ts: the pure functions                        *)
(***************************************************************************)
\* the critical files without the device registry
ManualFilesWithoutRegistry ==
  { <<".","c","o","n","f","i","g",".","j","s","o","n">>,
    <<".","s","y","n","c","-","c","o","n","f","i","g",".","j","s","o","n">> }

\* critical files that require manual resolution
MANUAL_RESOLUTION_FILES ==
  { <<".","c","o","n","f","i","g",".","j","s","o","n">>,
    <<".","s","y","n","c","-","c","o","n","f","i","g",".","j","s","o","n">>,
    DEVICE_REGISTRY_FILE }

\* the positions of s, from position `from` on, where sub occurs
Occurrences(s, sub, from) ==
  { i \in from..(Len(s) - Len(sub) + 1) : HasAt(s, i, sub) }

\* "<<<<<<< HEAD\n" of conflictPattern
HeadMarker == <<"<","<","<","<","<","<","<"," ","H","E","A","D","\n">>

\* "\n=======\n" of conflictPattern
MidMarker == <<"\n","=","=","=","=","=","=","=","\n">>

\* "\n>>>>>>> " of conflictPattern
TailMarker == <<"\n",">",">",">",">",">",">",">"," ">>

\* content.match(conflictPattern): <<s, p, q>>, the positions of the three
\* markers in the leftmost match, each group the shortest ([\s\S]*? twice);
\* << >> when there is no match
FirstConflict(content) ==
  LET heads == Occurrences(content, HeadMarker, 1)
      mids  == Occurrences(content, MidMarker, 1)
      tails == Occurrences(content, TailMarker, 1)
      Mids(s) == { p \in mids : p >= s + Len(HeadMarker)
                                  /\ \E q \in tails : q >= p + Len(MidMarker) }
      starts == { s \in heads : Mids(s) # {} }
  IN  IF starts = {} THEN << >>
      ELSE LET s == SetMin(starts)
               p == SetMin(Mids(s))
           IN  <<s, p, SetMin({ q \in tails : q >= p + Len(MidMarker) })>>

NoMarkers == [found |-> FALSE, local |-> << >>, remote |-> << >>]

\* extractConflict(content): null, or the two groups of the match
extractConflict(content) ==
  LET m == FirstConflict(content)
  IN  IF m = << >> THEN NoMarkers
      ELSE [found |-> TRUE,
            local |-> SubSeq(content, m[1] + Len(HeadMarker), m[2] - 1),
            remote |-> SubSeq(content, m[2] + Len(MidMarker), m[3] - 1)]

\* a Date: null, Invalid Date, or the fields of a valid one
NoDate == [kind |-> "null", t |-> << >>]

InvalidDate == [kind |-> "invalid", t |-> << >>]

\* the value of a decimal digit character
DigitVal(c) == CHOOSE d \in 0..9 : DigitChar(d) = c

\* the number that the two digits at position i of s write
TwoDigits(s, i) == 10 * DigitVal(s[i]) + DigitVal(s[i + 1])

\* /\d{4}-\d{2}-\d{2}/
DatePattern ==
  << Rep(Digit, 4, 4), One({"-"}), Rep(Digit, 2, 2), One({"-"}), Rep(Digit, 2, 2) >>

\* /\d{2}:\d{2}:\d{2}/
TimePattern ==
  << Rep(Digit, 2, 2), One({":"}), Rep(Digit, 2, 2), One({":"}), Rep(Digit, 2, 2) >>

\* /\d{4}-\d{2}-\d{2}T\d{2}:\d{2}:\d{2}/
IsoPattern == DatePattern \o << One({"T"}) >> \o TimePattern

\* /\d{4}-\d{2}-\d{2}\s+\d{2}:\d{2}:\d{2}/
SpacedPattern == DatePattern \o << AtLeast(SpaceChar, 1) >> \o TimePattern

\* the Date of year, month, day, hour, minute, second: Invalid Date when a
\* field is out of its range
DateOf(y, mo, d, h, mi, sec) ==
  IF mo \in 1..12 /\ d \in 1..31 /\ h \in 0..23 /\ mi \in 0..59 /\ sec \in 0..59
  THEN [kind |-> "valid", t |-> <<y, mo, d, h, mi, sec>>]
  ELSE InvalidDate

\* new Date(str) for the strings that extractTimestamp passes: a date-time with
\* T or one space between date and time (local time), a date alone (midnight),
\* and Invalid Date for every other string
NewDate(str) ==
  LET y  == 100 * TwoDigits(str, 1) + TwoDigits(str, 3)
      mo == TwoDigits(str, 6)
      d  == TwoDigits(str, 9)
  IN  IF Len(str) = 19 /\ MatchAt(DatePattern, 1, str, 1) /\ str[11] \in {"T", " "}
         /\ MatchAt(TimePattern, 1, str, 12)
      THEN DateOf(y, mo, d, TwoDigits(str, 12), TwoDigits(str, 15), TwoDigits(str, 18))
      ELSE IF Len(str) = 10 /\ MatchAt(DatePattern, 1, str, 1)
      THEN DateOf(y, mo, d, 0, 0, 0)
      ELSE InvalidDate

\* the number of leading characters of s, from position i on, that are in cls
RECURSIVE RunFrom(_, _, _)
RunFrom(s, i, cls) ==
  IF i <= Len(s) /\ s[i] \in cls THEN 1 + RunFrom(s, i + 1, cls) ELSE 0

\* content.match(/"key":\s*"([^"]+)"/): the start of group 1 for a match at i
FieldValueStart(content, key, i) == i + Len(key) + RunFrom(content, i + Len(key), SpaceChar) + 1

\* the positions where /"key":\s*"([^"]+)"/ matches
FieldMatches(content, key) ==
  { i \in Occurrences(content, key, 1) :
      LET v == FieldValueStart(content, key, i) IN
      /\ v - 1 <= Len(content) /\ content[v - 1] = "\""
      /\ v <= Len(content) /\ content[v] # "\""
      /\ \E j \in (v + 1)..Len(content) : content[j] = "\"" }

\* group 1 of the leftmost match
FieldValue(content, key) ==
  LET v == FieldValueStart(content, key, SetMin(FieldMatches(content, key)))
      e == SetMin({ j \in (v + 1)..Len(content) : content[j] = "\"" })
  IN  SubSeq(content, v, e - 1)

LastUpdatedKey == <<"\"","l","a","s","t","_","u","p","d","a","t","e","d","\"",":">>

\* extractTimestamp with the last ISO literal in place of the first
extractTimestampLastMatch(content) ==
  LET iso    == { i \in 1..Len(content) : MatchAt(IsoPattern, 1, content, i) }
      last   == CHOOSE i \in iso : \A j \in iso : j <= i
      spaced == { i \in 1..Len(content) : MatchAt(SpacedPattern, 1, content, i) }
  IN  IF iso # {} THEN NewDate(SubSeq(content, last, last + 18))
      ELSE IF spaced # {}
      THEN LET i == SetMin(spaced)
           IN  NewDate(SubSeq(content, i, i + 17 + RunFrom(content, i + 10, SpaceChar)))
      ELSE IF FieldMatches(content, LastUpdatedKey) # {}
      THEN NewDate(FieldValue(content, LastUpdatedKey))
      ELSE NoDate

\* extractTimestamp(content): Date | null
extractTimestamp(content) ==
  LET iso    == { i \in 1..Len(content) : MatchAt(IsoPattern, 1, content, i) }
      spaced == { i \in 1..Len(content) : MatchAt(SpacedPattern, 1, content, i) }
  IN  IF iso # {} THEN NewDate(SubSeq(content, SetMin(iso), SetMin(iso) + 18))
      ELSE IF spaced # {}
      THEN LET i == SetMin(spaced)
           IN  NewDate(SubSeq(content, i, i + 17 + RunFrom(content, i + 10, SpaceChar)))
      ELSE IF FieldMatches(content, LastUpdatedKey) # {}
      THEN NewDate(FieldValue(content, LastUpdatedKey))
      ELSE NoDate

DeviceNameKey == <<"\"","d","e","v","i","c","e","_","n","a","m","e","\"",":">>

DeviceHeader == <<"*","*","D","e","v","i","c","e","*","*",":">>

\* the positions where /\*\*Device\*\*:\s*(\S+)/ matches
DeviceHeaderMatches(content) ==
  { i \in Occurrences(content, DeviceHeader, 1) :
      LET v == i + Len(DeviceHeader) + RunFrom(content, i + Len(DeviceHeader), SpaceChar)
      IN  v <= Len(content) }

\* the number of leading characters of s, from position i on, that are not in cls
RECURSIVE RunFromNot(_, _, _)
RunFromNot(s, i, cls) ==
  IF i <= Len(s) /\ s[i] \notin cls THEN 1 + RunFromNot(s, i + 1, cls) ELSE 0

\* extractDevice(content)
extractDevice(content) ==
  IF FieldMatches(content, DeviceNameKey) # {} THEN FieldValue(content, DeviceNameKey)
  ELSE IF DeviceHeaderMatches(content) # {}
  THEN LET i == SetMin(DeviceHeaderMatches(content))
           v == i + Len(DeviceHeader) + RunFrom(content, i + Len(DeviceHeader), SpaceChar)
       IN  SubSeq(content, v, v + RunFromNot(content, v, SpaceChar) - 1)
  ELSE <<"u","n","k","n","o","w","n">>

\* a.getTime() < b.getTime() for two valid Dates
RECURSIVE FieldsBefore(_, _)
FieldsBefore(a, b) ==
  /\ a # << >>
  /\ \/ Head(a) < Head(b)
     \/ Head(a) = Head(b) /\ FieldsBefore(Tail(a), Tail(b))

\* a >= b for two Dates
DateNotBefore(a, b) == a.kind = "valid" /\ b.kind = "valid" /\ ~FieldsBefore(a.t, b.t)

\* a > b for two Dates; a comparison with Invalid Date (NaN) is false
DateAfter(a, b) == a.kind = "valid" /\ b.kind = "valid" /\ FieldsBefore(b.t, a.t)

\* resolveByTimestamp(markers): winner and the kind of its reason
resolveByTimestamp(markers) ==
  LET localTs  == extractTimestamp(markers.local)
      remoteTs == extractTimestamp(markers.remote)
  IN  IF localTs = NoDate /\ remoteTs = NoDate
      THEN [winner |-> "local", reason |-> "No timestamps found - defaulting to local"]
      ELSE IF localTs = NoDate
      THEN [winner |-> "remote", reason |-> "Only remote has timestamp"]
      ELSE IF remoteTs = NoDate
      THEN [winner |-> "local", reason |-> "Only local has timestamp"]
      ELSE IF DateAfter(remoteTs, localTs)
      THEN [winner |-> "remote", reason |-> "Remote is newer"]
      ELSE [winner |-> "local", reason |-> "Local is newer"]

\* str.replace(sub, ''): str without the first occurrence of sub
RemoveFirst(str, sub) ==
  IF Occurrences(str, sub, 1) = {} THEN str
  ELSE LET i == SetMin(Occurrences(str, sub, 1))
       IN  SubSeq(str, 1, i - 1) \o SubSeq(str, i + Len(sub), Len(str))

\* requiresManualResolution(filePath)
requiresManualResolution(filePath) ==
  LET relativePath == RemoveFirst(filePath, MEMORY_DIR \o <<"/">>)
  IN  \E pattern \in MANUAL_RESOLUTION_FILES : Includes(relativePath, pattern)

\* path.basename(filePath)
basename(filePath) ==
  IF DirOf(filePath) = << >> /\ (filePath = << >> \/ filePath[1] # "/") THEN filePath
  ELSE SubSeq(filePath, Len(DirOf(filePath)) + 2, Len(filePath))

\* a field of a date in two digits
Pad2(n) == <<DigitChar(n \div 10), DigitChar(n % 10)>>

\* date.toISOString() of a valid Date, on a device whose time zone is UTC
DateISO(date) ==
  Decimal(date.t[1]) \o <<"-">> \o Pad2(date.t[2]) \o <<"-">> \o Pad2(date.t[3]) \o <<"T">>
    \o Pad2(date.t[4]) \o <<":">> \o Pad2(date.t[5]) \o <<":">> \o Pad2(date.t[6])
    \o <<".","0","0","0","Z">>

\* str.replace(/[:.]/g, '-')
DashColonsDots(str) == [i \in 1..Len(str) |-> IF str[i] \in {":", "."} THEN "-" ELSE str[i]]

\* archiveLoserVersion(filePath, content, device, timestamp) at clock t: the
\* archive file that it writes (a timestamp that is Invalid Date makes
\* toISOString throw instead)
archiveLoserVersion(filePath, content, device, timestamp, t) ==
  LET filename == basename(filePath)
      tsStr == DashColonsDots(IF timestamp # NoDate THEN DateISO(timestamp) ELSE toISOString(t))
  IN  [path |-> filename \o <<".">> \o device \o <<".">> \o tsStr
                  \o <<".","a","r","c","h","i","v","e","d">>,
       content |-> content]

\* `${timestamp?.toISOString() || 'Not found'}`
TimestampOrNotFound(timestamp) ==
  IF timestamp = NoDate THEN <<"N","o","t"," ","f","o","u","n","d">> ELSE DateISO(timestamp)

\* the logEntry of logConflictResolution at clock t, for the resolution of
\* markers that carry their metadata
ConflictRecord(filePath, resolution, markers, t) ==
  [time |-> toISOString(t), file |-> filePath, winner |-> resolution.winner,
   reason |-> resolution.reason,
   localDevice |-> markers.localDevice,
   localTimestamp |-> TimestampOrNotFound(markers.localTimestamp),
   remoteDevice |-> markers.remoteDevice,
   remoteTimestamp |-> TimestampOrNotFound(markers.remoteTimestamp),
   archived |-> IF resolution.winner = "local" THEN "remote" ELSE "local"]

\* logConflictResolution: the log file with the entry after its content
logConflictResolution(logFile, record) ==
  [exists |-> TRUE, records |-> Append(logFile.records, record)]

(***************************************************************************)
(* Scripts/resolve-conflicts.ts: one run over the unmerged files           *)
(***************************************************************************)
\* the operation that fails throughout a run, if any: git diff, reading the
\* conflicted file, writing the archive, writing the file, git add, the log file
ResolveFaults == {"none", "diff", "read", "archive", "write", "stage", "log"}

\* the only element of a singleton
TheOne(S) == CHOOSE x \in S : TRUE

\* what one call of resolveFile did: the file, its content before, the result,
\* the markers and their metadata, the winner, and the operations that succeeded
NoRun ==
  [file |-> << >>, before |-> << >>, result |-> FALSE, markers |-> NoMarkers,
   localDevice |-> << >>, remoteDevice |-> << >>, localTimestamp |-> NoDate,
   remoteTimestamp |-> NoDate, winner |-> "none", ops |-> {}]

\* the side that won, where the side that lost is meant
LoserIsWinner(winner, local, remote) == IF winner = "local" THEN local ELSE remote

\* resolution.winner === 'local' ? remote : local
LoserOf(winner, local, remote) == IF winner = "local" THEN remote ELSE local

\* resolution.winner === 'local' ? local : remote
WinnerOf(winner, local, remote) == IF winner = "local" THEN local ELSE remote

\* resolveFile from the archive on: markers that carry their metadata
\* (localDevice, remoteDevice, localTimestamp, remoteTimestamp), and the resolution
resolveWith(r, path, t, markers, resolution) ==
  LET filePath == FullPath(path)
      loserContent == LoserOf(resolution.winner, markers.local, markers.remote)
      loserDevice == LoserOf(resolution.winner, markers.localDevice, markers.remoteDevice)
      loserTimestamp ==
        LoserOf(resolution.winner, markers.localTimestamp, markers.remoteTimestamp)
      winnerContent == WinnerOf(resolution.winner, markers.local, markers.remote)
      archive == archiveLoserVersion(filePath, loserContent, loserDevice, loserTimestamp, t)
      record == ConflictRecord(filePath, resolution, markers, t)
      archived == [r EXCEPT !.archives = { a \in @ : a.path # archive.path } \cup {archive}]
      written == [archived EXCEPT !.tree[path] = winnerContent]
      added == [written EXCEPT
                  !.staged = [p \in DOMAIN @ \cup {path} |->
                                IF p = path THEN winnerContent ELSE @[p]],
                  !.unmerged = SelectSeq(@, LAMBDA p : p # path)]
      logged == [added EXCEPT !.logFile = logConflictResolution(@, record)]
      Run(state, result, ops) ==
        [state EXCEPT !.runs = Append(@,
           [NoRun EXCEPT !.file = path, !.before = r.tree[path], !.result = result,
                         !.markers = markers, !.localDevice = markers.localDevice,
                         !.remoteDevice = markers.remoteDevice,
                         !.localTimestamp = markers.localTimestamp,
                         !.remoteTimestamp = markers.remoteTimestamp,
                         !.winner = resolution.winner, !.ops = ops])]
  IN  IF r.fault = "archive" \/ loserTimestamp = InvalidDate
      THEN Run(r, FALSE, {"read"})
      ELSE IF r.fault = "write"
      THEN Run(archived, FALSE, {"read", "archive"})
      ELSE IF r.fault = "stage"
      THEN Run(written, FALSE, {"read", "archive", "write"})
      ELSE IF r.fault = "log"
              \/ InvalidDate \in {markers.localTimestamp, markers.remoteTimestamp}
      THEN Run(added, FALSE, {"read", "archive", "write", "stage"})
      ELSE Run(logged, TRUE, {"read", "archive", "write", "stage", "log"})

\* markers with the metadata that resolveFile extracts into them
WithMetadata(markers, localDevice, remoteDevice, localTimestamp, remoteTimestamp) ==
  [found |-> TRUE, local |-> markers.local, remote |-> markers.remote,
   localDevice |-> localDevice, remoteDevice |-> remoteDevice,
   localTimestamp |-> localTimestamp, remoteTimestamp |-> remoteTimestamp]

\* resolveFile from the metadata on
resolveMarkers(r, path, t, markers) ==
  TheOne({ resolveWith(r, path, t, WithMetadata(markers, ld, rd, lt, rt), resolution) :
             ld \in {extractDevice(markers.local)},
             rd \in {extractDevice(markers.remote)},
             lt \in {extractTimestamp(markers.local)},
             rt \in {extractTimestamp(markers.remote)},
             resolution \in {resolveByTimestamp(markers)} })

\* the state after resolveFile(filePath) at clock t, with its run recorded
resolveFile(r, path, t) ==
  LET Run(ops) == [r EXCEPT !.runs = Append(@, [NoRun EXCEPT !.file = path,
                                                             !.before = r.tree[path],
                                                             !.ops = ops])]
  IN  IF requiresManualResolution(FullPath(path)) THEN Run({})
      ELSE IF r.fault = "read" THEN Run({})
      ELSE TheOne({ IF ~markers.found THEN Run({"read"})
                    ELSE resolveMarkers(r, path, t, markers) :
                      markers \in {extractConflict(r.tree[path])} })

\* main up to the loop: the memory directory, getConflictedFiles
ResolveMain ==
  /\ rs.pc = "start"
  /\ rs' = IF ~rs.memoryDir THEN [rs EXCEPT !.pc = "done", !.exit = 1]
           ELSE IF rs.fault = "diff" \/ rs.unmerged = << >>
           THEN [rs EXCEPT !.pc = "done", !.exit = 0]
           ELSE [rs EXCEPT !.pc = "loop", !.conflictedFiles = rs.unmerged, !.idx = 1]
  /\ UNCHANGED <<configFile, fs, ioFail, dirFail, gate, now, scriptInstalled, queueFile,
                 registryFile, head, commits, pushed, ss, se>>

\* one iteration of the loop of main: resolveFile(file)
ResolveFile ==
  /\ rs.pc = "loop"
  /\ rs.idx <= Len(rs.conflictedFiles)
  /\ rs' = [resolveFile(rs, rs.conflictedFiles[rs.idx], now) EXCEPT !.idx = @ + 1]
  /\ UNCHANGED <<configFile, fs, ioFail, dirFail, gate, now, scriptInstalled, queueFile,
                 registryFile, head, commits, pushed, ss, se>>

\* the runs of the loop that main counts as manual
ManualRuns(runs) ==
  { i \in DOMAIN runs : ~runs[i].result /\ requiresManualResolution(FullPath(runs[i].file)) }

\* the runs of the loop that main counts as failed
FailedRuns(runs) ==
  { i \in DOMAIN runs : ~runs[i].result /\ ~requiresManualResolution(FullPath(runs[i].file)) }

\* main after the loop: the summary and process.exit
ResolveExit ==
  /\ rs.pc = "loop"
  /\ rs.idx > Len(rs.conflictedFiles)
  /\ rs' = [rs EXCEPT !.pc = "done",
                      !.exit = IF ManualRuns(rs.runs) # {} \/ FailedRuns(rs.runs) # {}
                               THEN 1 ELSE 0]
  /\ UNCHANGED <<configFile, fs, ioFail, dirFail, gate, now, scriptInstalled, queueFile,
                 registryFile, head, commits, pushed, ss, se>>

(***************************************************************************)
(* The conflicted files that the resolver runs start from                  *)
(***************************************************************************)
ConfigPath == <<".","c","o","n","f","i","g",".","j","s","o","n">>

SyncConfigPath == <<".","s","y","n","c","-","c","o","n","f","i","g",".","j","s","o","n">>

\* the lines of a conflict body that carry a timestamp candidate
StampLines ==
  { <<"2","0","2","6","-","0","1","-","0","9","T","1","4",":","0","0",":","0","0">>,
    <<"2","0","2","6","-","0","1","-","0","9","T","1","5",":","0","0",":","0","0">>,
    <<"2","0","2","6","-","0","1","-","0","9"," ","1","5",":","0","0",":","0","0">>,
    <<"2","0","2","6","-","0","1","-","0","9"," ","1","4",":","0","0",":","0","0">>,
    <<"\"","l","a","s","t","_","u","p","d","a","t","e","d","\"",":"," ","\"","2","0","2","6","-","0","1","-","0","8","\"">>,
    <<"\"","l","a","s","t","_","u","p","d","a","t","e","d","\"",":"," ","\"","s","o","o","n","\"">> }

\* the lines of a conflict body that name the device
DeviceLines ==
  { <<"\"","d","e","v","i","c","e","_","n","a","m","e","\"",":"," ","\"","p","c","\"">>,
    <<"*","*","D","e","v","i","c","e","*","*",":"," ","l","a","p">> }

\* the most timestamp candidates in one body
MaxStamps == 2

\* the sequences of at most n lines of S
RECURSIVE LinesUpTo(_, _)
LinesUpTo(S, n) ==
  IF n = 0 THEN {<< >>}
  ELSE LinesUpTo(S, n - 1) \cup { Append(l, x) : l \in LinesUpTo(S, n - 1), x \in S }

\* a body of the given lines
Body(lines) == IF lines = << >> THEN <<"x">> ELSE JoinLines(lines)

\* the bodies that differ in their timestamp candidates
StampBodies == { Body(l) : l \in LinesUpTo(StampLines, MaxStamps) }

\* the bodies of at most one line
OneLineBodies == { Body(l) : l \in LinesUpTo(StampLines, 1) }

\* the bodies that differ in their device
DeviceBodies == { Body(d \o l) : d \in LinesUpTo(DeviceLines, 1), l \in LinesUpTo(StampLines, 1) }

\* one conflict region as git writes it
Region(local, remote) ==
  HeadMarker \o local \o MidMarker \o remote \o TailMarker
    \o <<"o","r","i","g","i","n","/","m","a","i","n">>

\* a conflicted file: the region alone, between unconflicted lines, or followed
\* by a second region
Layouts == {"region", "context", "regions"}

Conflicted(local, remote, layout) ==
  CASE layout = "region" -> Region(local, remote)
    [] layout = "context" -> <<"#"," ","M","\n">> \o Region(local, remote) \o <<"\n","e","n","d">>
    [] layout = "regions" -> Region(local, remote) \o <<"\n">> \o Region(<<"p">>, <<"q">>)

\* git's list of unmerged paths is sorted
ResolvePaths == <<ConfigPath, SyncConfigPath, MemoryPath, SubArtifactPath, DEVICE_REGISTRY_FILE>>

\* the content of every other unmerged file
OtherConflict == Region(<<"a">>, <<"b">>)

\* the ConflictRecord that an earlier run left in the log
EarlierLog ==
  [exists |-> TRUE,
   records |-> << ConflictRecord(FullPath(MemoryPath), resolveByTimestamp(NoMarkers),
                                 WithMetadata(NoMarkers, extractDevice(<< >>),
                                              extractDevice(<< >>), NoDate, NoDate), 0) >>]

\* a merge that left the files of `others` and, with the given bodies, the
\* memory file unmerged
Merge(local, remote, layout, others, fault, logFile, memoryDir) ==
  [RsIdle EXCEPT
     !.pc = "start", !.memoryDir = memoryDir, !.fault = fault, !.logFile = logFile,
     !.logAtStart = logFile,
     !.tree = [p \in {MemoryPath} \cup others |->
                 IF p = MemoryPath THEN Conflicted(local, remote, layout)
                 ELSE OtherConflict],
     !.unmerged = SelectSeq(ResolvePaths, LAMBDA p : p \in {MemoryPath} \cup others)]

\* the merges: every timestamp body against every one-line body, and for each
\* pair of one-line bodies each way to differ in the devices, the layout, the
\* other unmerged files, a fault, or the log of an earlier run
Merges ==
  { Merge(l, r, "region", {}, "none", NoLog, TRUE) : l \in StampBodies, r \in OneLineBodies }
    \cup { Merge(l, r, "region", {}, "none", NoLog, TRUE) :
             l \in OneLineBodies, r \in StampBodies }
    \cup { Merge(l, r, y, {}, "none", NoLog, TRUE) :
             l \in DeviceBodies, r \in DeviceBodies, y \in Layouts }
    \cup { Merge(l, r, "region", o, "none", g, TRUE) :
             l \in OneLineBodies, r \in OneLineBodies,
             o \in SUBSET ({ ResolvePaths[i] : i \in DOMAIN ResolvePaths } \ {MemoryPath}),
             g \in {NoLog, EarlierLog} }
    \cup { Merge(l, r, y, {}, f, EarlierLog, TRUE) :
             l \in OneLineBodies, r \in OneLineBodies, y \in Layouts, f \in ResolveFaults }

InitResolve ==
  /\ configFile = EnabledConfig(TRUE)
  /\ fs = InitFs
  /\ ioFail = {}
  /\ dirFail = {}
  /\ gate = GateIdle
  /\ now = 0
  /\ scriptInstalled = TRUE
  /\ queueFile = ValidQueue(<< >>)
  /\ registryFile = BaseEnvironment.registryFile
  /\ head = [fs |-> fs, queueFile |-> queueFile, registryFile |-> registryFile]
  /\ commits = << >>
  /\ pushed = 0
  /\ ss = SsIdle
  /\ se = SeIdle
  /\ rs \in Merges \cup {[RsIdle EXCEPT !.pc = "start"], [RsIdle EXCEPT !.pc = "start", !.memoryDir = FALSE]}

NextResolve == ResolveMain \/ ResolveFile \/ ResolveExit

SpecResolve == InitResolve /\ [][NextResolve]_vars

(***************************************************************************)
(* Claims about the conflict resolver                                      *)
(***************************************************************************)
\* the calls of resolveFile that found conflict markers and chose a winner
Resolutions == { i \in DOMAIN rs.runs : rs.runs[i].markers.found }

\* both bodies gave a valid Date
BothStamped(run) ==
  run.localTimestamp.kind = "valid" /\ run.remoteTimestamp.kind = "valid"

C16_OnlyStampedSideWins ==
  \A i \in Resolutions :
    LET run == rs.runs[i] IN
    /\ run.localTimestamp.kind = "valid" /\ run.remoteTimestamp.kind # "valid"
         => run.winner = "local"
    /\ run.remoteTimestamp.kind = "valid" /\ run.localTimestamp.kind # "valid"
         => run.winner = "remote"

\* the local body has only an unparseable last_updated, the remote body a valid
\* timestamp, and local was written and staged
C16_UnparseableLocalWins ==
  \E i \in Resolutions :
    LET run == rs.runs[i] IN
    /\ run.localTimestamp = InvalidDate
    /\ run.remoteTimestamp.kind = "valid"
    /\ run.winner = "local"
    /\ "stage" \in run.ops
    /\ rs.staged[run.file] = run.markers.local

\* the critical files of the specification
CriticalPaths ==
  { <<".","c","o","n","f","i","g",".","j","s","o","n">>,
    <<".","s","y","n","c","-","c","o","n","f","i","g",".","j","s","o","n">>,
    <<"s","y","n","c","/","d","e","v","i","c","e","-","r","e","g","i","s","t","r","y",
      ".","j","s","o","n">> }

\* the file name that follows the last "/" of a path
FileName(path) ==
  SubSeq(path, SetMin({ i \in 1..(Len(path) + 1) : \A j \in i..Len(path) : path[j] # "/" }),
         Len(path))

\* C17: a conflicted critical file is never auto-resolved.  Every call of
\* resolveFile for it returns false and is counted as manual; its content stays
\* the conflicted content, it stays unmerged and unstaged, no archive carries
\* its name and no ConflictRecord names it; a run that met one exits with 1.
C17_CriticalNeverAutoResolved ==
  \A p \in CriticalPaths \cap DOMAIN rs.tree :
    /\ rs.tree[p] = OtherConflict
    /\ p \notin DOMAIN rs.staged
    /\ \E k \in DOMAIN rs.unmerged : rs.unmerged[k] = p
    /\ \A a \in rs.archives : ~HasAt(a.path, 1, FileName(p) \o <<".">>)
    /\ \A k \in DOMAIN rs.logFile.records : rs.logFile.records[k].file # FullPath(p)
    /\ \A i \in DOMAIN rs.runs :
         rs.runs[i].file = p
           => /\ ~rs.runs[i].result
              /\ rs.runs[i].ops = {}
              /\ i \in ManualRuns(rs.runs)
              /\ rs.pc = "done" => rs.exit = 1

\* a run that resolved the memory file and left the conflicted device registry
\* alone
C17_RegistryLeftBesideResolved ==
  /\ rs.pc = "done"
  /\ \E i \in DOMAIN rs.runs : rs.runs[i].file = DEVICE_REGISTRY_FILE
  /\ \E i \in DOMAIN rs.runs : rs.runs[i].file = MemoryPath /\ rs.runs[i].result
  /\ rs.tree[DEVICE_REGISTRY_FILE] = OtherConflict

\* the calls of resolveFile that wrote and staged a winner
AutoResolved == { i \in DOMAIN rs.runs : "stage" \in rs.runs[i].ops }

Overwritten == { i \in DOMAIN rs.runs : "write" \in rs.runs[i].ops }

\* the records that the run has appended to the log
Appended ==
  SubSeq(rs.logFile.records, Len(rs.logAtStart.records) + 1, Len(rs.logFile.records))

\* C19: the resolution log is append-only and has exactly one ConflictRecord
\* per auto-resolution.  The records that the log had at the start are still its
\* first records, unchanged and in order, and every file that the resolver
\* overwrote with a winner has exactly one record among those appended since.
C19_OneRecordPerOverwrite ==
  /\ Len(rs.logFile.records) >= Len(rs.logAtStart.records)
  /\ SubSeq(rs.logFile.records, 1, Len(rs.logAtStart.records)) = rs.logAtStart.records
  /\ \A i \in Overwritten :
       Cardinality({ k \in DOMAIN Appended :
                       /\ Appended[k].file = FullPath(rs.runs[i].file)
                       /\ Appended[k].winner = rs.runs[i].winner }) = 1

\* without any I/O fault, a file was overwritten with the remote body and
\* staged, and the finished run appended no record
C19_OverwrittenWithoutRecord ==
  /\ rs.pc = "done"
  /\ rs.fault = "none"
  /\ rs.logFile = rs.logAtStart
  /\ \E i \in Overwritten :
       /\ rs.runs[i].winner = "remote"
       /\ rs.runs[i].remoteTimestamp = InvalidDate
       /\ rs.tree[rs.runs[i].file] = rs.runs[i].markers.remote
       /\ rs.runs[i].file \in DOMAIN rs.staged

\* the position of the first line end of s at or after position i
LineEnd(s, i) == SetMin({ j \in i..Len(s) : s[j] = "\n" } \cup {Len(s) + 1})

\* content with each conflict-marked region replaced by the body that
\* resolveByTimestamp selects for it
RECURSIVE RegionsReplaced(_)
RegionsReplaced(content) ==
  IF FirstConflict(content) = << >> THEN content
  ELSE LET m == FirstConflict(content)
           markers == extractConflict(content)
           winner == resolveByTimestamp(markers).winner
       IN  SubSeq(content, 1, m[1] - 1)
             \o (IF winner = "local" THEN markers.local ELSE markers.remote)
             \o RegionsReplaced(SubSeq(content, LineEnd(content, m[3] + 1), Len(content)))

\* the starts of the three conflict marker lines
MarkerStarts ==
  { <<"<","<","<","<","<","<","<"," ">>, <<"=","=","=","=","=","=","=">>,
    <<">",">",">",">",">",">",">"," ">> }

\* C20: after auto-resolution the file, in the working tree and as staged, is
\* the conflicted file with every conflict-marked region replaced by its
\* winning body: the lines outside the regions are preserved and no conflict
\* marker remains, also when the file holds more than one region.
C20_RegionReplacedByWinner ==
  \A i \in AutoResolved :
    LET run == rs.runs[i] IN
    /\ rs.staged[run.file] = RegionsReplaced(run.before)
    /\ rs.tree[run.file] = rs.staged[run.file]
    /\ \A mark \in MarkerStarts : ~Includes(rs.staged[run.file], mark)

\* a conflicted file with lines before and after its region was resolved, and
\* the staged file is the winning body alone
C20_OutsideLinesDropped ==
  \E i \in AutoResolved :
    LET run == rs.runs[i] IN
    /\ run.result
    /\ FirstConflict(run.before)[1] > 1
    /\ Includes(run.before, <<"\n","e","n","d">>)
    /\ rs.staged[run.file] = WinnerOf(run.winner, run.markers.local, run.markers.remote)
    /\ ~Includes(rs.staged[run.file], <<"\n","e","n","d">>)

(***************************************************************************)
(* Claims about the order of the hooks' steps, the registry and redaction  *)
(***************************************************************************)
\* the session-start run is past its pull and has begun or finished the drain
PastPull == ss.pc \in {"retry", "registry"} \/ ss.how = "complete"

\* the number of calls of resolveFile for path p
ResolverCalls(p) == Cardinality({ i \in DOMAIN rs.runs : rs.runs[i].file = p })

\* C21: when the pull of a session-start run left conflict markers in the
\* working tree, the Conflict Resolver has been invoked once for each
\* conflicted file by the time the drain begins, and the run goes on to the
\* drain and the registry update.
C21_ResolverInvokedPerFile ==
  /\ PastPull /\ ss.pull \in {"conflict", "other"}
       => \A p \in DOMAIN rs.tree : ResolverCalls(p) = 1
  /\ ss.pc = "drain" => ENABLED SSDrainRead
  /\ ss.pc = "registry" => ENABLED SSRegistry

\* a run whose pull reported conflicts drained the queue with a push and
\* finished, and the memory file is still unmerged with no call of the resolver
C21_DrainedWithoutResolver ==
  /\ ss.how = "complete"
  /\ ss.pull = "conflict"
  /\ Did(ss, "push")
  /\ rs.unmerged = <<MemoryPath>>
  /\ rs.tree[MemoryPath] = PulledConflict
  /\ rs.runs = << >>
  /\ rs.pc = "idle"

\* the configuration switches a hook off: the file is absent or unparseable,
\* sync_enabled is false, or the hook's own switch (own) is false
SwitchedOff(own) ==
  \/ configFile.state \in {"absent", "malformed"}
  \/ configFile.state = "valid" /\ (~configFile.sync_enabled \/ ~own)

\* the step made no object-store call, ran no redaction and left the files, the
\* queue, the registry and the commits as they were
NoOpStep ==
  /\ ss'.pc = "idle" /\ se'.pc = "idle"
  /\ ss'.ops = << >> /\ se'.ops = << >>
  /\ ss'.exit \in {NoExit, 0} /\ se'.exit \in {NoExit, 0}
  /\ se'.redaction = "none"
  /\ UNCHANGED <<fs, queueFile, registryFile, head, commits, pushed, rs>>

\* C22: a hook that starts while the configuration is absent, unparseable, has
\* sync_enabled false or has the hook's own switch false is a no-op: the whole
\* run is this one step, which makes no pull, push, status, add or commit, runs
\* no redaction and leaves the queue and the registry unchanged.
C22_DisabledHookIsNoOp ==
  [][/\ SSBegin /\ SwitchedOff(configFile.on_session_start) => NoOpStep
     /\ SEBegin /\ SwitchedOff(configFile.on_session_end) => NoOpStep]_vars

\* a session start found sync_enabled false with a push queued: it ended
\* without a call and the entry is still queued
C22_QueuedPushLeftAlone ==
  /\ ss.how = "disabled"
  /\ configFile.state = "valid" /\ ~configFile.sync_enabled
  /\ queueFile = CarriedQueue(0)
  /\ ss.ops = << >>
  /\ pushed = 0

\* the calls of a session-start run so far: one pull, then only drain pushes
PullThenPushes ==
  /\ ss.pc = "pull" => ss.ops = << >>
  /\ ss.pc \in {"drain", "retry", "registry"} \/ ss.how = "complete"
       => /\ ss.ops # << >>
          /\ ss.ops[1] = "pull"
          /\ ss.pull \in PullOutcomes
          /\ \A i \in 2..Len(ss.ops) : ss.ops[i] = "push"

\* each step of a session-start run leads to the next step of the order
StartOrder ==
  /\ ss.pc = "pull" => ss'.pc = "drain" /\ ss'.pull \in PullOutcomes
  /\ ss.pc = "drain" => ss'.pc \in {"retry", "registry"} /\ ss'.pull = ss.pull
  /\ ss.pc = "retry" => ss'.pc \in {"retry", "registry"} /\ ss'.pull = ss.pull
  /\ ss.pc = "registry" => ss'.how = "complete" /\ ss'.pull = ss.pull
  /\ ss'.how = "complete" /\ ss.pc # "idle" => ss.pc = "registry"

\* C23: in every enabled session-start run the order is pull, then the drain
\* of the queue, then the registry update.  The calls of the run are one pull
\* followed only by drain pushes, and whatever the pull's outcome the run goes
\* from the pull to the drain and from the drain to the registry update.
C23_PullDrainRegistryOrder == [](PullThenPushes) /\ [][StartOrder]_vars

\* a run whose pull timed out pushed a queued commit and then updated last_seen
C23_DrainedAndSeenAfterTimeout ==
  /\ ss.how = "complete"
  /\ ss.pull = "ETIMEDOUT"
  /\ ss.ops = <<"pull", "push">>
  /\ pushed = Len(commits) /\ pushed > 0
  /\ queueFile = ValidQueue(<< >>)
  /\ registryFile.state = "valid" /\ DeviceName \in DOMAIN registryFile.devices
  /\ registryFile.devices[DeviceName].last_seen = now
  /\ now > 0

\* the positions of call op among the calls of run r
Calls(r, op) == { i \in DOMAIN r.ops : r.ops[i] = op }

\* every call b of run r comes after a call a
Precedes(r, a, b) == \A j \in Calls(r, b) : \E i \in Calls(r, a) : i < j

\* C24: in every session-end run the order is redact, commit, push.  A push
\* follows a commit of the run, an entry is enqueued only after the run's push
\* failed, and with redact_pii true a commit is made only after the redaction
\* script ran to successful completion in the run.
C24_RedactCommitPushOrder ==
  /\ Precedes(se, "commit", "push")
  /\ Did(se, "push") => se.commitHash # NoCommit
  /\ Precedes(se, "push", "enqueue")
  /\ Did(se, "enqueue") => se.pushError # "none"
  /\ Did(se, "commit") /\ configFile.state = "valid" /\ configFile.redact_pii
       => se.redaction = "ok" /\ Precedes(se, "redact", "commit")

\* with redact_pii true and the script missing, the run committed and pushed
\* without a run of the script
C24_CommittedWithoutRedaction ==
  /\ configFile.state = "valid" /\ configFile.redact_pii
  /\ ~scriptInstalled
  /\ se.redaction = "noscript"
  /\ ~Did(se, "redact")
  /\ Did(se, "commit") /\ Did(se, "push")
  /\ pushed = Len(commits) /\ pushed > 0

\* the working tree is what the last commit holds
CleanTree == fs = head.fs /\ queueFile = head.queueFile /\ registryFile = head.registryFile

\* C25: if the working tree has no pending changes when the session-end run
\* computes its status, the run makes no commit, attempts no push and leaves
\* the queue unchanged: the status is its last call.
C25_CleanTreeNoCommit ==
  [][SECommit /\ CleanTree
       => /\ commits' = commits /\ head' = head
          /\ pushed' = pushed
          /\ queueFile' = queueFile
          /\ se'.pc = "idle" /\ se'.how = "nocommit"
          /\ Calls(se', "commit") = {} /\ Calls(se', "push") = {}
          /\ Calls(se', "enqueue") = {}]_vars

\* a session end with redaction off found nothing changed and ended after the
\* status
C25_EndedAfterStatus ==
  /\ se.how = "nocommit"
  /\ se.redaction = "off"
  /\ CleanTree
  /\ se.ops = <<"status">>
  /\ commits = << >> /\ pushed = 0
  /\ queueFile = ValidQueue(<< >>)

C27_UpdateTouchesOnlyLastSeen ==
  [][SSRegistry =>
       LET d == configFile.device_name IN
       IF registryFile.state = "valid" /\ d \in DOMAIN registryFile.devices
       THEN /\ registryFile'.state = "valid"
            /\ DOMAIN registryFile'.devices = DOMAIN registryFile.devices
            /\ registryFile'.total_devices = registryFile.total_devices
            /\ \A o \in DOMAIN registryFile.devices \ {d} :
                 registryFile'.devices[o] = registryFile.devices[o]
            /\ registryFile'.devices[d] =
                 [registryFile.devices[d] EXCEPT !.last_seen = now]
            /\ registryFile'.last_updated = now
       ELSE registryFile' = registryFile]_vars

\* a session start of the configured device left the other device's record as
\* it was registered and kept its own first_seen
C27_OtherDeviceAsRegistered ==
  /\ ss.how = "complete"
  /\ registryFile.state = "valid"
  /\ configFile.device_name = DeviceName
  /\ DOMAIN registryFile.devices = DeviceNames
  /\ registryFile.devices[OtherDevice] = Device(1, 1)
  /\ registryFile.devices[DeviceName] = Device(0, 2)
  /\ registryFile.last_updated = 2

\* the memory file and its safe artifact, once redact-pii.ts has run
Original == fs[MemoryPath].content

SafeArtifact == fs[SafePath].content

\* text has a well-formed span [PII:T]...[/PII:T]
HasSpan(text) ==
  \E i \in 1..Len(text) :
    /\ OpenTypeAt(text, i) # << >>
    /\ ClosesFrom(text, i + Len(OpenMarker(OpenTypeAt(text, i))), OpenTypeAt(text, i)) # {}

\* text has an opening marker [PII:T]: the five characters [PII:, one or more
\* word characters and ]
HasOpening(text) ==
  \E i \in 1..Len(text), n \in 1..Len(text) :
    /\ HasAt(text, i, PiiOpen)
    /\ i + Len(PiiOpen) + n <= Len(text)
    /\ \A k \in 0..(n - 1) : text[i + Len(PiiOpen) + k] \in WordChar
    /\ text[i + Len(PiiOpen) + n] = "]"

\* the positions where a [REDACTED:T] token starts
TokenStarts(text) ==
  { i \in 1..Len(text) : \E type \in {<<"A">>, <<"B">>} : HasAt(text, i, Redacted(type)) }

\* C28: redaction is idempotent: redacting the safe artifact gives the safe
\* artifact; the safe artifact has no well-formed span [PII:T]...[/PII:T], and
\* no match of the marker pattern starts at a [REDACTED:T] token.
C28_RedactionIdempotent ==
  fs[SafePath].exists
    => /\ redactPII(SafeArtifact) = SafeArtifact
       /\ ~HasSpan(SafeArtifact)
       /\ \A i \in TokenStarts(SafeArtifact) : OpenTypeAt(SafeArtifact, i) = << >>

\* a span was redacted and an unterminated opening marker was left behind it
C28_TokenBesideOpenMarker ==
  /\ fs[SafePath].exists
  /\ Original = OpenMarker(<<"A">>) \o <<"z">> \o CloseMarker(<<"A">>) \o OpenMarker(<<"A">>)
  /\ SafeArtifact = Redacted(<<"A">>) \o OpenMarker(<<"A">>)

\* C29: a memory file without an opening marker [PII:T] redacts to itself: the
\* safe artifact equals it character for character.
C29_UnmarkedTextUnchanged ==
  fs[SafePath].exists /\ ~HasOpening(Original) => SafeArtifact = Original

\* a value between a lower-case opening marker and a closing marker was kept
C29_LowerCaseMarkerKept ==
  /\ fs[SafePath].exists
  /\ Original = LowerOpen \o <<"z">> \o CloseMarker(<<"A">>)
  /\ SafeArtifact = Original

\* the positions of text between an opening marker and a later closing marker
\* of the same type
InsideSpan(text) ==
  { p \in 1..Len(text) :
      \E i \in 1..p :
        /\ OpenTypeAt(text, i) # << >>
        /\ i + Len(OpenMarker(OpenTypeAt(text, i))) <= p
        /\ \E j \in ClosesFrom(text, p + 1, OpenTypeAt(text, i)) : TRUE }

\* C30: no text between an opening marker [PII:T] and a later closing marker
\* [/PII:T] of the same type survives in the safe artifact, also when spans of
\* one type nest or spans of two types overlap.
C30_NoSpanTextSurvives ==
  fs[SafePath].exists => InsideSpan(Original) \cap SurvivorsFrom(Original, 1) = {}

\* the span of type A ended inside the span of type B, and the rest of B's
\* value is in the safe artifact
C30_OverlappedValueSurvives ==
  /\ fs[SafePath].exists
  /\ Original = OpenMarker(<<"A">>) \o OpenMarker(<<"B">>) \o CloseMarker(<<"A">>)
                  \o <<"z">> \o CloseMarker(<<"B">>)
  /\ SafeArtifact = Redacted(<<"A">>) \o <<"z">> \o CloseMarker(<<"B">>)

(***************************************************************************)
(* Claims about malformed markers, condensation, retries and the queue     *)
(***************************************************************************)
\* the positions where an opening marker starts that no closing marker of its
\* type follows
Unterminated(text) ==
  { i \in 1..Len(text) :
      /\ OpenTypeAt(text, i) # << >>
      /\ ClosesFrom(text, i + Len(OpenMarker(OpenTypeAt(text, i))), OpenTypeAt(text, i)) = {} }

\* the TYPE of a closing marker [/PII:TYPE] at position i, << >> if there is none
CloseTypeAt(s, i) ==
  IF HasAt(s, i, PiiClose)
  THEN LET type == WordRun(s, i + Len(PiiClose))
       IN  IF type # << >> /\ HasAt(s, i + Len(PiiClose) + Len(type), <<"]">>)
           THEN type ELSE << >>
  ELSE << >>

\* the positions where a closing marker starts that no opening marker of its
\* type precedes
Unopened(text) ==
  { j \in 1..Len(text) :
      /\ CloseTypeAt(text, j) # << >>
      /\ \A i \in 1..j : OpenTypeAt(text, i) # CloseTypeAt(text, j) }

\* the characters of text at the positions of P, in order
RECURSIVE Pick(_, _, _)
Pick(text, P, i) ==
  IF i > Len(text) THEN << >>
  ELSE (IF i \in P THEN <<text[i]>> ELSE << >>) \o Pick(text, P, i + 1)

\* text without its [REDACTED:T] tokens
RECURSIVE WithoutTokens(_, _)
WithoutTokens(text, i) ==
  IF i > Len(text) THEN << >>
  ELSE IF \E type \in {<<"A">>, <<"B">>} : HasAt(text, i, Redacted(type))
  THEN WithoutTokens(text, i + Len(Redacted(<<"A">>)))
  ELSE <<text[i]>> \o WithoutTokens(text, i + 1)

\* the characters that the safe artifact has beside its tokens are those that
\* replace() copied, and both derived artifacts were written
RedactionCompleted ==
  /\ fs[SafePath].exists /\ fs[QuickPath].exists
  /\ WithoutTokens(SafeArtifact, 1) = Pick(Original, SurvivorsFrom(Original, 1), 1)

QuickBody ==
  LET quick == SplitLines(fs[QuickPath].content) IN SubSeq(quick, 1, Len(quick) - 5)

\* line is a heading of level 1 to 3
IsHeading(line) == headerMatch(line).matched

HeadingLevel(line) == headerMatch(line).level

\* line is a heading of includeSections
AllowListed(line) ==
  /\ IsHeading(line)
  /\ Hashes(HeadingLevel(line)) \o <<" ">> \o headerMatch(line).title \in includeSections

\* line k follows an allow-listed heading, and no heading at or above that
\* heading's level lies between them
InOpenSection(lines, k) ==
  \E a \in 1..(k - 1) :
    /\ AllowListed(lines[a])
    /\ \A c \in (a + 1)..(k - 1) :
         /\ ~AllowListed(lines[c])
         /\ ~(IsHeading(lines[c]) /\ HeadingLevel(lines[c]) <= HeadingLevel(lines[a]))

\* the lines that condensation is to keep, the empty ones aside
KeptLines(lines) ==
  { k \in 1..Len(lines) :
      \/ AllowListed(lines[k])
      \/ ~IsHeading(lines[k]) /\ ~IsBlank(lines[k]) /\ InOpenSection(lines, k) }

\* the lines of seq at the indices of K that are not blank, in order
RECURSIVE PickLines(_, _, _)
PickLines(seq, K, k) ==
  IF k > Len(seq) THEN << >>
  ELSE (IF k \in K /\ ~IsBlank(seq[k]) THEN <<seq[k]>> ELSE << >>) \o PickLines(seq, K, k + 1)

\* C32: the quick artifact's body has, in order, the allow-listed headings and
\* the content lines of the sections they open; a heading that is not
\* allow-listed and is at or above the level of the included section closes it,
\* and no line between it and the next allow-listed heading is in the body.
\* Every heading of level 1 to 3 in the body is allow-listed.
C32_OnlyAllowListedSections ==
  fs[QuickPath].exists
    => /\ PickLines(QuickBody, 1..Len(QuickBody), 1)
            = PickLines(SplitLines(SafeArtifact), KeptLines(SplitLines(SafeArtifact)), 1)
       /\ \A k \in 1..Len(QuickBody) : IsHeading(QuickBody[k]) => AllowListed(QuickBody[k])

\* a heading of the same level closed the section: the line after it was
\* dropped and the line before it was kept
C32_ClosedBySameLevel ==
  /\ fs[QuickPath].exists
  /\ SplitLines(Original) = << <<"#","#"," ","U","s","e","r"," ","P","r","o","f","i","l","e">>,
                              <<"x">>, <<"#","#"," ","N">>, <<"x">> >>
  /\ QuickBody = << <<"#","#"," ","U","s","e","r"," ","P","r","o","f","i","l","e">>, <<"x">> >>

\* the lines of a body that are a date-time literal with sep between date and time
LiteralLines(lines, sep) ==
  { k \in 1..Len(lines) : Len(lines[k]) = 19 /\ lines[k][5] = "-" /\ lines[k][11] = sep }

\* the lines of a body that are a last_updated field
FieldLines(lines) ==
  { k \in 1..Len(lines) :
      /\ Len(lines[k]) > Len(LastUpdatedKey) + 3
      /\ SubSeq(lines[k], 1, Len(LastUpdatedKey)) = LastUpdatedKey }

\* the timestamp that the preference names for a body of such lines
PreferredTimestamp(body) ==
  LET lines  == SplitLines(body)
      iso    == LiteralLines(lines, "T")
      spaced == LiteralLines(lines, " ")
      field  == FieldLines(lines)
  IN  IF iso # {} THEN NewDate(lines[SetMin(iso)])
      ELSE IF spaced # {} THEN NewDate(lines[SetMin(spaced)])
      ELSE IF field # {}
      THEN LET line == lines[SetMin(field)]
           IN  NewDate(SubSeq(line, Len(LastUpdatedKey) + 3, Len(line) - 1))
      ELSE NoDate

\* C33: the timestamp of each body of a conflict is the first ISO-8601 literal
\* in it if there is one, otherwise the first date-time literal with a space,
\* otherwise the value of the first last_updated field, otherwise none.
C33_TimestampPreference ==
  \A i \in Resolutions :
    /\ rs.runs[i].localTimestamp = PreferredTimestamp(rs.runs[i].markers.local)
    /\ rs.runs[i].remoteTimestamp = PreferredTimestamp(rs.runs[i].markers.remote)

\* a body with a spaced literal before an ISO literal gave the ISO literal,
\* the later of the two instants
C33_FirstIsoAfterSpaced ==
  \E i \in Resolutions :
    /\ SplitLines(rs.runs[i].markers.local)
         = << <<"2","0","2","6","-","0","1","-","0","9"," ","1","4",":","0","0",":","0","0">>,
              <<"2","0","2","6","-","0","1","-","0","9","T","1","5",":","0","0",":","0","0">> >>
    /\ rs.runs[i].localTimestamp = DateOf(2026, 1, 9, 15, 0, 0)

\* a push was attempted in this step of the drain
Attempted == Len(ss'.ops) > Len(ss.ops)

\* an entry has been retried at most three times, and at most once for each
\* session start so far
RetryBound ==
  \A e \in QueueEntries : e.retry_count <= MaxRetries /\ e.retry_count <= now + 1

\* a push is attempted only for an entry below the cap; an entry at the cap is
\* kept as it is
CappedNotAttempted ==
  SSDrainEntry =>
    LET push == ss.pending[ss.idx] IN
    IF push.retry_count >= MaxRetries
    THEN ~Attempted /\ ss'.stillPending = Append(ss.stillPending, push)
    ELSE Attempted /\ Len(ss'.ops) = Len(ss.ops) + 1

\* the queue that the drain writes holds, for each entry that it read, nothing
\* (the push succeeded), the entry with retry_count one higher (the push
\* failed) or the entry as it was (at the cap); no retry_count decreases
CountedOnce ==
  SSDrainWrite =>
    \A j \in DOMAIN queueFile'.entries :
      \E i \in DOMAIN ss.pending :
        /\ ss.pending[i].commit_hash = queueFile'.entries[j].commit_hash
        /\ IF i \in ss.attempted
           THEN queueFile'.entries[j].retry_count = ss.pending[i].retry_count + 1
           ELSE queueFile'.entries[j] = ss.pending[i]

MalformedQueueOnlySkipsDrain ==
  SSRegistry /\ queueFile.state = "malformed" =>
    /\ ~Did(ss, "push")
    /\ queueFile' = queueFile /\ queueFile = head.queueFile
    /\ (registryFile.state = "valid" /\ configFile.device_name \in DOMAIN registryFile.devices
          => /\ registryFile'.devices[configFile.device_name].last_seen = now
             /\ registryFile'.last_updated = now)
    /\ ss'.exit = 0

\* the registry step of a run that found the registry file unparseable: the
\* file is as it was, and so are the queue that the drain wrote and the pushes
MalformedRegistryOnlySkipsUpdate ==
  SSRegistry /\ registryFile.state = "malformed" =>
    /\ registryFile' = registryFile
    /\ queueFile' = queueFile /\ pushed' = pushed
    /\ ss'.exit = 0

\* C35: an unparseable queue file makes session start attempt no push and leave
\* the queue file unchanged, and the registry update is still made; an
\* unparseable registry file is left unchanged and the drain's result stands;
\* the hook ends with exit status 0 in both cases.
C35_MalformedFileDisablesOwnStep ==
  [][MalformedQueueOnlySkipsDrain /\ MalformedRegistryOnlySkipsUpdate]_vars

\* the drain pushed the queued commit and emptied the queue although the
\* registry file could not be parsed
C35_DrainedBesideBadRegistry ==
  /\ ss.how = "complete"
  /\ registryFile.state = "malformed"
  /\ Did(ss, "push")
  /\ queueFile = ValidQueue(<< >>)
  /\ pushed = Len(commits)

\* the queue holds only entries at the cap
OnlyCapped ==
  /\ queueFile.state = "valid"
  /\ \A i \in DOMAIN queueFile.entries : queueFile.entries[i].retry_count = MaxRetries

HashesOf(entries) == { entries[i].commit_hash : i \in DOMAIN entries }

\* the drain's write keeps every entry of the file that the drain did not read
DrainKeepsUnread ==
  SSDrainWrite =>
    HashesOf(queueFile.entries) \ HashesOf(ss.pending) \subseteq HashesOf(queueFile'.entries)

\* the enqueue's write brings back no entry that is no longer in the file
EnqueueRevivesNone ==
  SEQueueWrite =>
    HashesOf(queueFile'.entries) \ {se.commitHash} \subseteq HashesOf(queueFile.entries)

\* C37: in every interleaving of a session-end enqueue with a session-start
\* drain no update of the queue file is lost: the drain's write keeps the entry
\* that was enqueued after the drain read the file, and the enqueue's write
\* holds no entry that the drain removed after a successful push.
C37_NoLostQueueUpdate == [][DrainKeepsUnread /\ EnqueueRevivesNone]_vars

\* session end enqueued its commit after the drain had read the file, and the
\* drain's write left the file without that entry
C37_EnqueuedEntryOverwritten ==
  /\ ss.pc = "registry"
  /\ ss.pending # << >>
  /\ Did(se, "enqueue")
  /\ se.commitHash # NoCommit
  /\ se.commitHash \notin HashesOf(ss.pending)
  /\ se.commitHash \notin HashesOf(queueFile.entries)

\* the drain pushed the queued commit and emptied the file, and the enqueue
\* that had read the file before wrote the pushed entry back
PushedEntryWrittenBack ==
  /\ ss.pc \in {"registry", "idle"}
  /\ Did(ss, "push")
  /\ Did(se, "enqueue")
  /\ pushed = Len(commits)
  /\ Len(queueFile.entries) = 2

(***************************************************************************)
(* Scripts/redact-pii.ts followed by the PrePush hook                      *)
(***************************************************************************)
EmailValue == <<"a","@","b",".","c","o">>

\* an opening [PII:EMAIL] marker that nothing closes, with its value
UnterminatedEmail == OpenMarker(<<"E","M","A","I","L">>) \o EmailValue

\* the lines that the memory files of the pipeline are made of
PipelineLines ==
  { <<"#","#"," ","U","s","e","r"," ","P","r","o","f","i","l","e">>,
    <<"h","i">>,
    <<"#"," ","T">>,
    UnterminatedEmail,
    <<"m","a","i","l"," ">> \o EmailValue,
    OpenMarker(<<"E","M","A","I","L">>) \o EmailValue \o CloseMarker(<<"E","M","A","I","L">>),
    OpenMarker(<<"P","H","O","N","E">>) \o <<"5","5","5","-","1","2","3","4">>
      \o CloseMarker(<<"P","H","O","N","E">>) }

\* the longest memory file of the pipeline, in lines
MaxPipelineLines == 3

\* the sequences of 1 to n pipeline lines
RECURSIVE PipelineLinesUpTo(_)
PipelineLinesUpTo(n) ==
  IF n = 1 THEN { <<l>> : l \in PipelineLines }
  ELSE PipelineLinesUpTo(n - 1)
         \cup { Append(t, l) : t \in PipelineLinesUpTo(n - 1), l \in PipelineLines }

PipelineTexts == { JoinLines(t) : t \in PipelineLinesUpTo(MaxPipelineLines) }

InitPipeline ==
  /\ configFile = EnabledConfig(TRUE)
  /\ registryFile = Registry("valid", [d \in {DeviceName} |-> Device(0, 0)])
  /\ \E x \in PipelineTexts : fs = [p \in Paths |-> IF p = MemoryPath THEN File(x) ELSE NoFile]
  /\ ioFail \in {{}, {QuickPath}}
  /\ dirFail = {}
  /\ gate = GateIdle
  /\ now = 0
  /\ scriptInstalled = TRUE
  /\ queueFile = ValidQueue(<< >>)
  /\ head = [fs |-> fs, queueFile |-> queueFile, registryFile |-> registryFile]
  /\ commits = << >>
  /\ pushed = 0
  /\ ss = SsIdle
  /\ se = SeIdle
  /\ rs = RsIdle

\* the redaction of a session, which runs before the push that starts the gate
RedactBeforePush == ~gate.ran /\ RedactMain

NextPipeline == RedactBeforePush \/ PrePushMain

SpecPipeline == InitPipeline /\ [][NextPipeline]_vars

(***************************************************************************)
(* Claims about the two redaction layers together                          *)
(***************************************************************************)
\* the safe artifact is the redaction of the memory file as it is on disk
SafeArtifactDerived ==
  /\ fs[MemoryPath].exists /\ fs[SafePath].exists
  /\ fs[SafePath].content = redactPII(fs[MemoryPath].content)

\* an e-mail address survives in the safe artifact behind an opening marker
\* that was never terminated
UnterminatedValueSurvives ==
  /\ SafeArtifactDerived
  /\ Includes(fs[SafePath].content, UnterminatedEmail)
  /\ HasMatch(PII_PATTERNS("email"), fs[SafePath].content)

\* C38: if a value matching a gate pattern survives in the safe artifact
\* because its [PII:TYPE] opening marker was never terminated, the gate blocks
\* the transmission.
C38_GateStopsMissedMarker ==
  GateScanned /\ UnterminatedValueSurvives => gate.exit = 2

\* the gate allowed both artifacts of a memory file whose e-mail address sits
\* behind an unterminated marker, with every file read and written
C38_MissedMarkerAllowed ==
  /\ GateScanned /\ UnterminatedValueSurvives
  /\ ioFail = {}
  /\ {SafePath, QuickPath} \subseteq getFilesToCheck
  /\ gate.exit = 0 /\ gate.report = {}

\* the memory file has no match of a gate pattern and no marker
CleanMemoryFile ==
  /\ fs[MemoryPath].exists
  /\ \A n \in DOMAIN PiiTypes : ~HasMatch(PII_PATTERNS(PiiTypes[n]), fs[MemoryPath].content)
  /\ ~Includes(fs[MemoryPath].content, PiiOpen)
  /\ ~Includes(fs[MemoryPath].content, PiiClose)

\* both artifacts on disk are the ones that processFile derives from the
\* memory file, the quick one with its footer
BothArtifactsDerived ==
  /\ SafeArtifactDerived
  /\ fs[QuickPath].exists
  /\ fs[QuickPath].content = generateQuickVersion(fs[SafePath].content, now)

\* C39: for a memory file with no match of any gate pattern and no markers,
\* both derived artifacts, the quick version with its footer included, pass
\* the gate with status allowed.
C39_CleanOutputPasses ==
  GateScanned /\ CleanMemoryFile /\ BothArtifactsDerived => gate.exit = 0

\* the gate blocked the artifacts of a clean memory file, and its report names
\* the quick version alone, for the phone pattern
C39_CleanQuickVersionBlocked ==
  /\ GateScanned /\ CleanMemoryFile /\ BothArtifactsDerived
  /\ gate.exit = 2
  /\ gate.report = { [file |-> QuickPath, findings |-> {"phone"}] }
  /\ HasMatch(PII_PATTERNS("phone"), toISOString(now))

(***************************************************************************)
(* Claims about the failures of resolveFile                                *)
(***************************************************************************)
\* the archives that the run has written for the file
ArchivesFor(path) ==
  LET filename == basename(FullPath(path))
  IN  { a \in rs.archives :
          Len(a.path) >= Len(filename) /\ SubSeq(a.path, 1, Len(filename)) = filename }

\* the records that the run has appended to the log for the file
RecordsFor(path) == { k \in DOMAIN Appended : Appended[k].file = FullPath(path) }

\* resolveFile left the file, the index, the archive and the log as they were
NothingDoneFor(run) ==
  /\ rs.tree[run.file] = run.before
  /\ run.file \notin DOMAIN rs.staged
  /\ ArchivesFor(run.file) = {}
  /\ RecordsFor(run.file) = {}

\* C40: whenever the resolver reports a non-critical file as not resolved, the
\* file's content on disk is the same as before the call, nothing is staged for
\* it, and no archive or ConflictRecord was written for it.
C40_FailedResolutionChangesNothing ==
  \A i \in FailedRuns(rs.runs) : NothingDoneFor(rs.runs[i])

\* with no I/O operation failing, resolveFile returned false for a file that
\* it had archived, overwritten with the winner and staged
C40_FailedAfterOverwriteAndStage ==
  \E i \in FailedRuns(rs.runs) :
     LET run == rs.runs[i]
     IN  /\ rs.fault = "none"
         /\ run.markers.found
         /\ rs.tree[run.file] # run.before
         /\ run.file \in DOMAIN rs.staged
         /\ ArchivesFor(run.file) # {}
         /\ RecordsFor(run.file) = {}

\* resolveFile returned false for a file without conflict markers and left
\* everything as it was
FailedWithoutMarkers ==
  \E i \in FailedRuns(rs.runs) : ~rs.runs[i].markers.found /\ NothingDoneFor(rs.runs[i])

====
